---- MODULE Spec2Model ----
(***************************************************************************)
(* todoist-cli (src/src/cli.ts): one invocation of the command-line tool   *)
(* as a state machine.  Strings are sequences of one-character strings so  *)
(* that trimming, lower-casing, substring search and the URL pattern are   *)
(* computed the way the code computes them.                                *)
(***************************************************************************)
EXTENDS Integers, Sequences, FiniteSets, TLC

\* ------------------------------------------------------------------ bounds
\* Longest response the remote returns for a search or a listing.
MaxResults == 6
MaxReviewProjects == 2

\* ----------------------------------------------------------------- strings
UpperCase == <<"A","B","C","D","E","F","G","H","I","J","K","L","M",
               "N","O","P","Q","R","S","T","U","V","W","X","Y","Z">>
LowerCase == <<"a","b","c","d","e","f","g","h","i","j","k","l","m",
               "n","o","p","q","r","s","t","u","v","w","x","y","z">>
Digits == {"0","1","2","3","4","5","6","7","8","9"}
Letters == {UpperCase[i] : i \in 1..26} \cup {LowerCase[i] : i \in 1..26}
WhiteSpace == {" ", "\t", "\n"}

\* one character of String.prototype.toLowerCase
toLowerChar(c) ==
  IF \E i \in 1..26 : UpperCase[i] = c
  THEN LowerCase[CHOOSE i \in 1..26 : UpperCase[i] = c]
  ELSE c

toLowerCase(s) == [i \in 1..Len(s) |-> toLowerChar(s[i])]

\* String.prototype.includes
includes(s, sub) ==
  \E i \in 0..(Len(s) - Len(sub)) : SubSeq(s, i + 1, i + Len(sub)) = sub

\* String.prototype.startsWith
startsWith(s, p) == Len(p) <= Len(s) /\ SubSeq(s, 1, Len(p)) = p

\* String.prototype.slice(n)
slice(s, n) == SubSeq(s, n + 1, Len(s))

\* no trimming at all
trim_none(s) == s

\* String.prototype.trim
trim(s) ==
  LET keep == {i \in 1..Len(s) : s[i] \notin WhiteSpace}
  IN  IF keep = {} THEN <<>>
      ELSE SubSeq(s, CHOOSE i \in keep : \A j \in keep : i <= j,
                     CHOOSE i \in keep : \A j \in keep : i >= j)

\* String.prototype.lastIndexOf for a one-character needle, 0-based, -1 if absent
lastIndexOf(s, c) ==
  LET at == {i \in 1..Len(s) : s[i] = c}
  IN  IF at = {} THEN -1 ELSE (CHOOSE i \in at : \A j \in at : i >= j) - 1

null == [null |-> TRUE]

\* -------------------------------------------------------------- URL pattern
S_https == <<"h","t","t","p","s">>
Schemes == { <<"h","t","t","p">>, <<"h","t","t","p","s">> }
HostPath == <<":","/","/","a","p","p",".","t","o","d","o","i","s","t",".",
              "c","o","m","/","a","p","p","/">>
S_task == <<"t","a","s","k">>
S_project == <<"p","r","o","j","e","c","t">>
S_label == <<"l","a","b","e","l">>
S_filter == <<"f","i","l","t","e","r">>
UrlKinds == { [name |-> "task", text |-> S_task],
              [name |-> "project", text |-> S_project],
              [name |-> "label", text |-> S_label],
              [name |-> "filter", text |-> S_filter] }

\* The matches of TODOIST_URL_PATTERN on url: the text before capture group 2
\* and the kind of capture group 1.  Group 2 is [^?#]+, at least one character.
TODOIST_URL_PATTERN(url) ==
  { m \in { [kind |-> k.name, head |-> sc \o HostPath \o k.text \o <<"/">>] :
              sc \in Schemes, k \in UrlKinds } :
      /\ startsWith(url, m.head)
      /\ Len(url) > Len(m.head)
      /\ url[Len(m.head) + 1] \notin {"?", "#"} }

parseTodoistUrl(url) ==
  LET match == TODOIST_URL_PATTERN(url)
  IN  IF match = {} THEN null
      ELSE LET m == CHOOSE x \in match : TRUE
               from == Len(m.head) + 1
               stop == {i \in from..Len(url) : url[i] \in {"?", "#"}}
               to == IF stop = {} THEN Len(url)
                     ELSE (CHOOSE i \in stop : \A j \in stop : i <= j) - 1
               slugAndId == SubSeq(url, from, to)
               lastHyphen == lastIndexOf(slugAndId, "-")
               id == IF lastHyphen = -1 THEN slugAndId
                     ELSE slice(slugAndId, lastHyphen + 1)
           IN  [type |-> m.kind, id |-> id]

S_idPrefix == <<"i","d",":">>
\* the prefix is looked for with = in place of :
isIdRef_equalsSign(ref) == startsWith(ref, <<"i","d","=">>)
isIdRef(ref) == startsWith(ref, S_idPrefix)
extractId(ref) == slice(ref, 3)

looksLikeRawId(ref) ==
  IF includes(ref, <<" ">>) THEN FALSE
  ELSE \/ (Len(ref) > 0 /\ \A i \in 1..Len(ref) : ref[i] \in Digits)
       \/ ((\E i \in 1..Len(ref) : ref[i] \in Letters)
           /\ (\E i \in 1..Len(ref) : ref[i] \in Digits))

\* ---------------------------------------------------------- duration parser
digitValue(c) ==
  CASE c = "0" -> 0 [] c = "1" -> 1 [] c = "2" -> 2 [] c = "3" -> 3
    [] c = "4" -> 4 [] c = "5" -> 5 [] c = "6" -> 6 [] c = "7" -> 7
    [] c = "8" -> 8 [] c = "9" -> 9

RECURSIVE parseIntTo(_, _)
\* the number written by the first n digits of ds
parseIntTo(ds, n) ==
  IF n = 0 THEN 0 ELSE 10 * parseIntTo(ds, n - 1) + digitValue(ds[n])
parseInt(ds) == parseIntTo(ds, Len(ds))

\* positions where /(\d+)\s*<unit>/i matches: digits from i to d, white space
\* up to e, then the unit letter in either case
UnitMatches(s, unit) ==
  {i \in 1..Len(s) :
     \E d \in i..Len(s) :
        /\ \A k \in i..d : s[k] \in Digits
        /\ \E e \in d..(Len(s) - 1) :
              /\ \A k \in (d + 1)..e : s[k] \in WhiteSpace
              /\ toLowerChar(s[e + 1]) = unit}

\* parseInt(m[1]) for the match at position i: the digits from i on
AmountAt(s, i) ==
  CHOOSE r \in {parseInt(SubSeq(s, i, d)) :
                  d \in {e \in i..Len(s) :
                           /\ \A k \in i..e : s[k] \in Digits
                           /\ (e = Len(s) \/ s[e + 1] \notin Digits)}} : TRUE

\* parseInt(m[1]) of the leftmost match; no match contributes nothing
UnitAmount(s, unit) ==
  CHOOSE r \in {IF ms = {} THEN 0
                ELSE AmountAt(s, CHOOSE i \in ms : \A j \in ms : i <= j) :
                  ms \in {UnitMatches(s, unit)}} : TRUE

\* parseDuration returns matched ? total : null; the pair is kept here
parseDuration(s) ==
  IF UnitMatches(s, "h") # {} \/ UnitMatches(s, "m") # {}
  THEN [matched |-> TRUE,
        total |-> UnitAmount(s, "h") * 60 + UnitAmount(s, "m")]
  ELSE IF trim(s) # <<>> /\ \A i \in 1..Len(trim(s)) : trim(s)[i] \in Digits
  THEN [matched |-> TRUE, total |-> parseInt(trim(s))]
  ELSE [matched |-> FALSE, total |-> 0]

\* --------------------------------------------------------------- CLI parser
S_true == <<"t","r","u","e">>
S_dashes == <<"-","-">>
S_content == <<"c","o","n","t","e","n","t">>
S_before == <<"b","e","f","o","r","e">>
S_at == <<"a","t">>
S_parent == <<"p","a","r","e","n","t">>
S_priority == <<"p","r","i","o","r","i","t","y">>

\* a value that is undefined in the code; every use of a flag or of pos[0]
\* in the code is a truthiness test, and parseFlags never stores ""
undefined == <<>>

RECURSIVE parseFlagsFrom(_, _, _)
parseFlagsFrom(args, i, flags) ==
  IF i > Len(args) THEN flags
  ELSE IF startsWith(args[i], S_dashes)
       THEN LET key == slice(args[i], 2)
                hasNext == i + 1 <= Len(args) /\ args[i + 1] # <<>>
                           /\ ~startsWith(args[i + 1], S_dashes)
            IN  IF hasNext
                THEN parseFlagsFrom(args, i + 2, (key :> args[i + 1]) @@ flags)
                ELSE parseFlagsFrom(args, i + 1, (key :> S_true) @@ flags)
       ELSE parseFlagsFrom(args, i + 1, flags)

parseFlags(args) == parseFlagsFrom(args, 1, <<>>)

RECURSIVE getNonFlagArgsFrom(_, _, _)
getNonFlagArgsFrom(args, i, result) ==
  IF i > Len(args) THEN result
  ELSE IF startsWith(args[i], S_dashes)
       THEN LET hasNext == i + 1 <= Len(args) /\ args[i + 1] # <<>>
                           /\ ~startsWith(args[i + 1], S_dashes)
            IN  getNonFlagArgsFrom(args, IF hasNext THEN i + 2 ELSE i + 1, result)
       ELSE getNonFlagArgsFrom(args, i + 1, Append(result, args[i]))

getNonFlagArgs(args) == getNonFlagArgsFrom(args, 1, <<>>)

\* flags.<key>, undefined when the flag was not given
Flag(flags, key) == IF key \in DOMAIN flags THEN flags[key] ELSE undefined

\* pos[0], undefined when there is no positional argument
Pos0(pos) == IF Len(pos) >= 1 THEN pos[1] ELSE undefined

\* ------------------------------------------------- the remote account (data)
\* Tasks and projects the remote service can answer with, in the order the
\* service lists them.  Display texts and ids are chosen so that one ref can be
\* an exact match, a substring of several texts, and an id at the same time.
\* a string-valued field that is null or undefined in the payload; strings are
\* sequences of one-character strings, so this is no string
noString == <<"<null>">>
D_feb28 == <<"2","0","2","6","-","0","2","-","2","8">>
D_mar01 == <<"2","0","2","6","-","0","3","-","0","1">>
D_mar02 == <<"2","0","2","6","-","0","3","-","0","2">>
DueOn(date) ==
  [date |-> date, datetime |-> noString, string |-> date, isRecurring |-> FALSE]
DueMarch == DueOn(D_mar01)
\* a task of the account: the fields of type Task
TaskOf(id, content, due) ==
  [id |-> id, content |-> content, description |-> <<>>, priority |-> 1,
   due |-> due, deadline |-> null, labels |-> <<>>, projectId |-> <<"a","1">>,
   sectionId |-> noString, parentId |-> noString,
   url |-> S_https \o HostPath \o S_task \o <<"/">> \o id]
\* the tasks of the account: two in the inbox project a1, the others in the
\* projects 7, 9 and 3
TaskStore ==
  << TaskOf(<<"9">>, <<"A","B">>, DueMarch),
     [TaskOf(<<"4","2">>, <<"a","b","c">>, null) EXCEPT !.projectId = <<"7">>],
     [TaskOf(<<"7">>, <<"a","b">>, DueOn(D_feb28)) EXCEPT !.projectId = <<"7">>],
     TaskOf(<<"a","1">>, <<"x","a","b">>, null),
     [TaskOf(<<"3">>, <<"a","b","1">>, DueOn(D_mar02)) EXCEPT !.projectId = <<"9">>],
     [TaskOf(<<"8">>, <<"i","d",":","4","2"," ","a","b">>, null)
        EXCEPT !.projectId = <<"3">>] >>
ProjectStore ==
  << [id |-> <<"9">>, name |-> <<"A","B">>, isInboxProject |-> FALSE],
     [id |-> <<"4","2">>, name |-> <<"a","b","c">>, isInboxProject |-> FALSE],
     [id |-> <<"7">>, name |-> <<"a","b">>, isInboxProject |-> FALSE],
     [id |-> <<"a","1">>, name |-> <<"x","a","b">>, isInboxProject |-> TRUE],
     [id |-> <<"3">>, name |-> <<"a","b","1">>, isInboxProject |-> FALSE],
     [id |-> <<"8">>, name |-> <<"i","d",":","4","2"," ","a","b">>, isInboxProject |-> FALSE] >>

RECURSIVE Pick(_, _, _)
\* the elements of store at the positions in S, in store order, from position i
Pick(store, S, i) ==
  IF i > Len(store) THEN <<>>
  ELSE IF i \in S THEN <<store[i]>> \o Pick(store, S, i + 1)
       ELSE Pick(store, S, i + 1)

\* what a search or a listing can answer: any selection of the account's
\* entities, in the service's order, of at most MaxResults entries
Responses(store) ==
  {Pick(store, S, 1) : S \in {X \in SUBSET (1..Len(store)) : Cardinality(X) <= MaxResults}}
TaskResponses == Responses(TaskStore)
ProjectResponses == Responses(ProjectStore)
\* the project listings cmdReview is given: selections of at most
\* MaxReviewProjects projects
ReviewProjectResponses == {rs \in ProjectResponses : Len(rs) <= MaxReviewProjects}

\* ---------------------------------------------------------------- formatting
\* a key whose value is undefined is left out of the JSON document
\* the key is written with its value even when the value is absent
Optional_kept(key, value, absent) == key :> value
\* value ?? undefined, value || undefined
Optional(key, value, absent) == IF value = absent THEN <<>> ELSE key :> value

\* the date-time is ignored
formatTask_dateOnly(t) ==
  [id |-> t.id,
   content |-> t.content,
   priority |-> t.priority,
   due |-> IF t.due # null THEN t.due.date ELSE noString,
   dueString |-> IF t.due # null THEN t.due.string ELSE noString,
   isRecurring |-> IF t.due # null THEN t.due.isRecurring ELSE FALSE,
   deadline |-> IF t.deadline # null THEN t.deadline.date ELSE noString,
   projectId |-> t.projectId,
   url |-> t.url]
  @@ Optional("description", t.description, <<>>)
  @@ Optional("labels", t.labels, <<>>)
  @@ Optional("sectionId", t.sectionId, noString)
  @@ Optional("parentId", t.parentId, noString)
formatTask(t) ==
  [id |-> t.id,
   content |-> t.content,
   priority |-> t.priority,
   due |-> IF t.due # null /\ t.due.date # noString THEN t.due.date
           ELSE IF t.due # null /\ t.due.datetime # noString THEN t.due.datetime
           ELSE noString,
   dueString |-> IF t.due # null THEN t.due.string ELSE noString,
   isRecurring |-> IF t.due # null THEN t.due.isRecurring ELSE FALSE,
   deadline |-> IF t.deadline # null THEN t.deadline.date ELSE noString,
   projectId |-> t.projectId,
   url |-> t.url]
  @@ Optional("description", t.description, <<>>)
  @@ Optional("labels", t.labels, <<>>)
  @@ Optional("sectionId", t.sectionId, noString)
  @@ Optional("parentId", t.parentId, noString)

\* well-formed tasks the service can answer a fetch of id 42 with
V_everyDay == <<"e","v","e","r","y"," ","d","a","y">>
V_dateTime == D_mar01 \o <<"T","1","0",":","0","0",":","0","0","Z">>
Dues ==
  {null} \cup
  [date : {noString, D_mar01}, datetime : {noString, V_dateTime},
   string : {noString, V_everyDay}, isRecurring : BOOLEAN]
WellFormedTasks ==
  [id : {<<"4","2">>}, content : {<<"a","b","c">>},
   description : {<<>>, <<"d">>}, priority : 1..4, due : Dues,
   deadline : {null, [date |-> D_mar02]}, labels : {<<>>, << <<"l">> >>},
   projectId : {<<"a","1">>}, sectionId : {noString, <<"s","5">>},
   parentId : {noString, <<"7">>},
   url : {S_https \o HostPath \o S_task \o <<"/","4","2">>}]

\* --------------------------------------------------------------- the clock
\* days from 1970-01-01 to the day y-m-d of the proleptic Gregorian calendar
DaysFromCivil(y, m, d) ==
  LET yy == IF m <= 2 THEN y - 1 ELSE y
      era == yy \div 400
      yoe == yy - era * 400
      mp == IF m > 2 THEN m - 3 ELSE m + 9
      doy == (153 * mp + 2) \div 5 + d - 1
      doe == yoe * 365 + yoe \div 4 - yoe \div 100 + doy
  IN  era * 146097 + doe - 719468

\* new Date("YYYY-MM-DD"): a date-only string is the midnight of that day in
\* UTC; in minutes since the epoch
DateParse(s) ==
  1440 * DaysFromCivil(parseInt(SubSeq(s, 1, 4)), parseInt(SubSeq(s, 6, 7)),
                       parseInt(SubSeq(s, 9, 10)))

\* instants of 2026-03-01 (UTC) and timezone offsets the process can run at
Noon == DateParse(D_mar01) + 720
Nows == {DateParse(D_mar01) + 30, Noon, DateParse(D_mar01) + 1410}
Offsets == {-720, -300, 0, 60, 840}

\* --------------------------------------------------------- the inputs (argv)
R_blank == <<" "," ">>
R_Ab == <<"A","b">>
R_a == <<"a">>
R_42 == <<"4","2">>
R_b1 == <<"b","1">>
R_zz == <<"z","z">>
R_id42 == <<"i","d",":","4","2">>
R_taskUrl == S_https \o HostPath \o S_task \o <<"/","b","u","y","-","m","i","l","k","-","4","2">>
R_projectUrl == S_https \o HostPath \o S_project \o <<"/","w","o","r","k","-","7","?","x">>
R_labelUrl == <<"h","t","t","p">> \o HostPath \o S_label \o <<"/","3">>
R_sectionUrl == S_https \o HostPath \o <<"s","e","c","t","i","o","n","/","5">>
R_punct == <<"a","-","1">>
R_tab == <<"a","\t","1">>
Refs == {R_blank, R_Ab, R_a, R_42, R_b1, R_zz, R_id42, R_punct, R_tab,
         R_taskUrl, R_projectUrl, R_labelUrl, R_sectionUrl}
V_text == <<"t","e","x","t">>
V_30m == <<"3","0","m">>
V_soon == <<"s","o","o","n">>
V_2 == <<"2">>
V_4 == <<"4">>
V_2x == <<"2","x">>
V_at == <<"2","0","2","6","-","0","2","-","2","0","T","1","0",":","0","0">>

Opt(key, value) == << S_dashes \o key, value >>

Commands ==
  {"today", "inbox", "search", "list", "review", "show", "add", "complete",
   "reopen", "update", "move", "delete", "comments", "comment-add",
   "comment-update", "comment-delete", "reminders", "reminder-add",
   "reminder-delete", "activity", "completed", "projects", "sections",
   "labels", "add-project", "add-section"}
HelpCommands == {"help", "--help", "-h"}
TaskRefCommands ==
  {"show", "complete", "reopen", "update", "move", "delete", "comments",
   "comment-add", "reminders", "reminder-add"}

Argvs ==
  {<<>>}
  \cup {<<c>> : c \in Commands \cup HelpCommands \cup {"bogus"}}
  \cup {<<c, r>> : c \in TaskRefCommands, r \in Refs}
  \cup {<<"move", r>> \o Opt(S_project, p) : r \in Refs, p \in Refs}
  \cup {<<"comment-add", r>> \o Opt(S_content, V_text) : r \in Refs}
  \cup {<<"reminder-add", r>> \o o :
          r \in Refs,
          o \in {Opt(S_before, V_30m), Opt(S_before, V_soon), Opt(S_at, V_at),
                 <<S_dashes \o S_before>>,
                 Opt(S_before, V_30m) \o Opt(S_at, V_at)}}
  \cup {<<c>> \o Opt(S_project, p) :
          c \in {"list", "activity", "completed", "sections"}, p \in Refs}
  \cup {<<"list">> \o Opt(k, V_text) : k \in {S_filter, S_label}}
  \cup {<<c, V_text>> :
          c \in {"search", "add", "add-project", "add-section",
                 "comment-update", "comment-delete", "reminder-delete"}}
  \cup {<<"add", V_text>> \o Opt(S_project, p) : p \in Refs}
  \cup {<<"add", V_text>> \o o :
          o \in {Opt(S_priority, V_2), Opt(S_priority, V_4),
                 Opt(S_priority, V_2x), <<S_dashes \o S_priority>>}}
  \cup {<<"add-project", V_text>> \o Opt(S_parent, p) : p \in Refs}
  \cup {<<"add-section", V_text>> \o Opt(S_project, p) : p \in Refs}
  \cup {<<"comment-update", R_id42>> \o Opt(S_content, V_text)}

\* -------------------------------------------------------------------- state
VARIABLES
  argv,      \* process.argv.slice(2): the command word, then the tokens
  env,       \* TRUE iff TODOIST_API_TOKEN is set in the environment
  now,       \* the clock, in minutes since the epoch (UTC)
  tz,        \* the local timezone's offset from UTC, in minutes
  pc,        \* where the invocation is: main, run, an await, exited
  cmd,       \* main's cmd
  pos,       \* main's pos
  flags,     \* main's flags
  handler,   \* the steps of the handler main dispatched to
  step,      \* index of the handler's current step
  task,      \* the task resolveTaskRef returned, or null
  project,   \* the project resolveProjectRef (or the inbox lookup) returned
  results,   \* the response of the last search or listing, while in scope
  projects,  \* cmdReview's projects: the listing its getProjects() returned
  calls,     \* every remote call issued so far, with its outcome
  leases,    \* how often the secret-lease process was run
  stdout,    \* documents written to standard output
  stderr,    \* documents written to standard error
  exitCode   \* -1 while the process runs, then 0 or 1

vars == <<argv, env, now, tz, pc, cmd, pos, flags, handler, step, task, project,
          results, projects, calls, leases, stdout, stderr, exitCode>>

\* the process before main runs
Start ==
  /\ pc = "main"
  /\ cmd = ""
  /\ pos = <<>>
  /\ flags = <<>>
  /\ handler = <<>>
  /\ step = 0
  /\ task = null
  /\ project = null
  /\ results = <<>>
  /\ projects = <<>>
  /\ calls = <<>>
  /\ leases = 0
  /\ stdout = <<>>
  /\ stderr = <<>>
  /\ exitCode = -1

Init ==
  /\ argv \in Argvs
  /\ env \in BOOLEAN
  /\ now = Noon
  /\ tz = 0
  /\ Start

\* ------------------------------------------------------ output and failures
\* the message of a failure envelope, by the error kind it is an instance of
Err(kind) ==
  [kind |-> kind, entity |-> "", ref |-> <<>>, matches |-> <<>>, got |-> "",
   forms |-> {}]
\* "Use a name, URL, or id:xxx." of the not-found messages
AcceptedForms == {"name", "URL", "id:xxx"}

\* fatal(message): one document on standard error, then process.exit(1)
fatal(message) ==
  /\ stderr' = Append(stderr, [ok |-> FALSE, error |-> message])
  /\ exitCode' = 1
  /\ pc' = "exited"
  /\ UNCHANGED <<stdout, step>>

\* ok(command, result, nextActions): one document on standard output; the
\* caller then returns to main (or calls process.exit(0)) and the process ends
ok(command, result, nextActions) ==
  /\ stdout' = Append(stdout, [ok |-> TRUE, command |-> command,
                               result |-> result,
                               next_actions |-> nextActions])
  /\ exitCode' = 0
  /\ pc' = "exited"
  /\ UNCHANGED <<stderr, step>>

\* main without its try/catch: the rejection ends the process with code 1 and
\* no envelope
catch_unhandled ==
  /\ exitCode' = 1
  /\ pc' = "exited"
  /\ UNCHANGED <<stdout, stderr, step>>

\* an error thrown inside main's try block: fatal(`${cmd} failed: ...`)
catch == fatal([Err("RemoteFailure") EXCEPT !.got = cmd])

\* continue with the next step of the handler
Advance == pc' = "run" /\ step' = step + 1 /\ UNCHANGED <<stdout, stderr, exitCode>>

\* suspend at an await
Await(label) == pc' = label /\ UNCHANGED <<step, stdout, stderr, exitCode>>

\* a remote call being issued
Call(op, arg, by, fields) ==
  [op |-> op, arg |-> arg, by |-> by, fields |-> fields, status |-> "pending"]

Settled(i, status) == [calls EXCEPT ![i].status = status]
Pending == {i \in 1..Len(calls) : calls[i].status = "pending"}
LastCall == calls[Len(calls)]

\* --------------------------------------------------------- command handlers
\* The steps each cmdX handler takes after main dispatched to it.
TokenStep == [kind |-> "getToken"]
TaskRefStep(ref) == [kind |-> "resolveTask", ref |-> ref]
ProjectRefStep(ref) == [kind |-> "resolveProject", ref |-> ref]
ApiStep(op, target) == [kind |-> "call", op |-> op, target |-> target]
FetchStep(op) == [kind |-> "fetch", op |-> op]
OkStep(n) == [kind |-> "ok", nextActions |-> n]
\* the resolveProjectRef step of a handler that resolves a project only when
\* the option is given
IfGiven(ref) == IF ref # undefined THEN <<ProjectRefStep(ref)>> ELSE <<>>

Plan(c, p, f) ==
  CASE c = "today" ->
         <<TokenStep, ApiStep("getTasksByFilter", "none"), OkStep(2)>>
    [] c = "inbox" ->
         <<TokenStep, ApiStep("getProjects", "none"), [kind |-> "findInbox"],
           ApiStep("getTasks", "project"), OkStep(2)>>
    [] c = "search" ->
         <<TokenStep, ApiStep("getTasksByFilter", "pos"), OkStep(2)>>
    [] c = "list" ->
         IF Flag(f, S_filter) # undefined
         THEN <<TokenStep, ApiStep("getTasksByFilter", "none"), OkStep(0)>>
         ELSE IF Flag(f, S_project) # undefined
         THEN <<TokenStep, ProjectRefStep(Flag(f, S_project)),
                ApiStep("getTasks", "project"), OkStep(0)>>
         ELSE <<TokenStep, ApiStep("getTasks", "none"), OkStep(0)>>
    [] c = "show" ->
         <<TokenStep, TaskRefStep(Pos0(p)), ApiStep("getComments", "task"), OkStep(2)>>
    [] c = "add" ->
         <<TokenStep>> \o IfGiven(Flag(f, S_project))
         \o <<ApiStep("addTask", "pos"), OkStep(2)>>
    [] c = "complete" ->
         <<TokenStep, TaskRefStep(Pos0(p)), ApiStep("closeTask", "task"), OkStep(1)>>
    [] c = "reopen" ->
         <<TokenStep, TaskRefStep(Pos0(p)), ApiStep("reopenTask", "task"), OkStep(0)>>
    [] c = "delete" ->
         <<TokenStep, TaskRefStep(Pos0(p)), ApiStep("deleteTask", "task"), OkStep(0)>>
    [] c = "update" ->
         <<TokenStep, TaskRefStep(Pos0(p)), ApiStep("updateTask", "task"), OkStep(0)>>
    [] c = "move" ->
         <<TokenStep, TaskRefStep(Pos0(p))>> \o IfGiven(Flag(f, S_project))
         \o <<ApiStep("moveTask", "task"), OkStep(0)>>
    [] c = "comments" ->
         <<TokenStep, TaskRefStep(Pos0(p)), ApiStep("getComments", "task"), OkStep(1)>>
    [] c = "comment-add" ->
         <<TokenStep, TaskRefStep(Pos0(p)), ApiStep("addComment", "task"), OkStep(1)>>
    [] c = "comment-delete" ->
         <<TokenStep, ApiStep("getComment", "id"), ApiStep("deleteComment", "id"), OkStep(0)>>
    [] c = "comment-update" ->
         <<TokenStep, ApiStep("updateComment", "id"), ApiStep("getComment", "id"), OkStep(0)>>
    [] c = "reminder-add" ->
         <<[kind |-> "reminderOptions"], TokenStep, TaskRefStep(Pos0(p)),
           [kind |-> "reminderBefore"], TokenStep, FetchStep("reminder_add"), OkStep(1)>>
    [] c = "reminders" ->
         <<TokenStep, TaskRefStep(Pos0(p)), TokenStep, FetchStep("sync"), OkStep(0)>>
    [] c = "reminder-delete" ->
         <<TokenStep, FetchStep("reminder_delete"), OkStep(0)>>
    [] c = "activity" ->
         <<TokenStep>> \o IfGiven(Flag(f, S_project))
         \o <<ApiStep("getActivityLogs", "none"), OkStep(2)>>
    [] c = "completed" ->
         <<TokenStep>> \o IfGiven(Flag(f, S_project))
         \o <<ApiStep("getCompletedTasksByCompletionDate", "none"), OkStep(2)>>
    [] c = "projects" ->
         <<TokenStep, ApiStep("getProjects", "none"), OkStep(1)>>
    [] c = "sections" ->
         <<TokenStep>> \o IfGiven(Flag(f, S_project))
         \o <<ApiStep("getSections", "none"), OkStep(0)>>
    [] c = "labels" ->
         <<TokenStep, ApiStep("getLabels", "none"), OkStep(0)>>
    [] c = "add-project" ->
         <<TokenStep>> \o IfGiven(Flag(f, S_parent))
         \o <<ApiStep("addProject", "none"), OkStep(0)>>
    [] c = "add-section" ->
         <<TokenStep, ProjectRefStep(Flag(f, S_project)),
           ApiStep("addSection", "project"), OkStep(0)>>
    [] c = "review" ->
         <<TokenStep,
           [kind |-> "promiseAll",
            ops |-> <<"getTasksByFilter", "getTasks", "getProjects">>],
           OkStep(3)>>
    [] OTHER -> <<>>

\* the step the handler is at
Cur == IF pc = "run" /\ step \in 1..Len(handler) THEN handler[step] ELSE [kind |-> "none"]
At(kind) == pc = "run" /\ Cur.kind = kind

\* --------------------------------------------------------------------- main
NeedsPos0 ==
  {"search", "show", "add", "complete", "reopen", "update", "move", "delete",
   "comments", "comment-add", "comment-update", "comment-delete", "reminders",
   "reminder-add", "reminder-delete", "add-project", "add-section"}

\* only the positional argument is checked
MissingArgument_posOnly(c, p, f) == c \in NeedsPos0 /\ Pos0(p) = undefined
\* the argument checks of main's switch
MissingArgument(c, p, f) ==
  \/ c \in NeedsPos0 /\ Pos0(p) = undefined
  \/ c \in {"comment-add", "comment-update"} /\ Flag(f, S_content) = undefined
  \/ c = "add-section" /\ Flag(f, S_project) = undefined

main ==
  /\ pc = "main"
  /\ IF Len(argv) = 0
     THEN ok("help", null, 0) /\ UNCHANGED <<cmd, pos, flags, handler>>
     ELSE LET c == argv[1]
              rest == Tail(argv)
              f == parseFlags(rest)
              p == getNonFlagArgs(rest)
          IN  /\ cmd' = c
              /\ pos' = p
              /\ flags' = f
              /\ IF c \in HelpCommands
                 THEN ok("help", null, 0) /\ UNCHANGED handler
                 ELSE IF c \notin Commands
                 THEN fatal(Err("UnknownCommand")) /\ UNCHANGED handler
                 ELSE IF MissingArgument(c, p, f)
                 THEN fatal([Err("UsageError") EXCEPT !.got = c])
                      /\ UNCHANGED handler
                 ELSE /\ handler' = Plan(c, p, f)
                      /\ pc' = "run"
                      /\ step' = 1
                      /\ UNCHANGED <<stdout, stderr, exitCode>>
  /\ UNCHANGED <<argv, env, now, tz, projects, task, project, results, calls, leases>>

\* --------------------------------------------------------------------- auth
\* the environment variable is not consulted
getToken_leaseFirst ==
  /\ At("getToken")
  /\ leases' = leases + 1
  /\ \/ Advance
     \/ IF env THEN Advance ELSE fatal(Err("CredentialMissing"))
  /\ results' = <<>>
  /\ UNCHANGED <<argv, env, now, tz, projects, cmd, pos, flags, handler, task, project, calls>>

getToken ==
  /\ At("getToken")
  /\ IF env
     THEN Advance /\ UNCHANGED leases
     ELSE /\ leases' = leases + 1
          /\ \/ Advance
             \/ fatal(Err("CredentialMissing"))
  /\ results' = <<>>
  /\ UNCHANGED <<argv, env, now, tz, projects, cmd, pos, flags, handler, task, project, calls>>

\* ----------------------------------------------------------- ref resolution
Min(a, b) == IF a < b THEN a ELSE b

\* the comparison without lower-casing
exactTasks_caseSensitive(rs, ref) == SelectSeq(rs, LAMBDA t : t.content = ref)

\* results.filter(t => t.content.toLowerCase() === lower)
exactTasks(rs, ref) ==
  SelectSeq(rs, LAMBDA t : toLowerCase(t.content) = toLowerCase(ref))
\* the filter with equality in place of includes
partialTasks_exactOnly(rs, ref) ==
  SelectSeq(rs, LAMBDA t : toLowerCase(t.content) = toLowerCase(ref))

\* results.filter(t => t.content.toLowerCase().includes(lower))
partialTasks(rs, ref) ==
  SelectSeq(rs, LAMBDA t : includes(toLowerCase(t.content), toLowerCase(ref)))
\* the list without the slice
listedTasks_uncapped(partial) ==
  [i \in 1..Len(partial) |-> [text |-> partial[i].content, id |-> partial[i].id]]

\* partial.slice(0, 5).map(t => `  "${t.content}" (id:${t.id})`)
listedTasks(partial) ==
  [i \in 1..Min(5, Len(partial)) |->
     [text |-> partial[i].content, id |-> partial[i].id]]

\* only the first of the projects that equal ref is kept
exactProjects_first(rs, ref) ==
  LET exact == SelectSeq(rs, LAMBDA p : toLowerCase(p.name) = toLowerCase(ref))
  IN  IF exact = <<>> THEN <<>> ELSE <<exact[1]>>

\* projects.filter(p => p.name.toLowerCase() === lower)
exactProjects(rs, ref) ==
  SelectSeq(rs, LAMBDA p : toLowerCase(p.name) = toLowerCase(ref))
\* projects.filter(p => p.name.toLowerCase().includes(lower))
partialProjects(rs, ref) ==
  SelectSeq(rs, LAMBDA p : includes(toLowerCase(p.name), toLowerCase(ref)))
\* partial.slice(0, 5).map(p => `  "${p.name}" (id:${p.id})`)
listedProjects(partial) ==
  [i \in 1..Min(5, Len(partial)) |->
     [text |-> partial[i].name, id |-> partial[i].id]]

\* the kind check on a parsed URL left out
wrongKind_never(parsed, kind) == FALSE

\* parsed.type !== "task" (line 113), parsed.type !== "project" (line 151)
wrongKind(parsed, kind) == parsed.type # kind

\* the ref the resolver in progress was called with
Ref == handler[step].ref
TasksWithId(id) == {TaskStore[i] : i \in {j \in 1..Len(TaskStore) : TaskStore[j].id = id}}
ProjectsWithId(id) ==
  {ProjectStore[i] : i \in {j \in 1..Len(ProjectStore) : ProjectStore[j].id = id}}

resolveTaskRef ==
  /\ At("resolveTask")
  /\ LET ref == Cur.ref
         parsed == parseTodoistUrl(ref)
     IN  IF trim(ref) = <<>>
         THEN fatal([Err("EmptyReference") EXCEPT !.entity = "task"])
              /\ UNCHANGED calls
         ELSE IF parsed # null
         THEN IF wrongKind(parsed, "task")
              THEN fatal([Err("WrongUrlKind") EXCEPT !.entity = "task",
                                                      !.got = parsed.type])
                   /\ UNCHANGED calls
              ELSE /\ calls' = Append(calls, Call("getTask", parsed.id, "resolveTaskRef", {}))
                   /\ Await("awaitTask")
         ELSE IF isIdRef(ref)
         THEN /\ calls' = Append(calls, Call("getTask", extractId(ref), "resolveTaskRef", {}))
              /\ Await("awaitTask")
         ELSE /\ calls' = Append(calls, Call("getTasksByFilter", ref, "resolveTaskRef", {}))
              /\ Await("awaitTaskSearch")
  /\ results' = <<>>
  /\ UNCHANGED <<argv, env, now, tz, projects, cmd, pos, flags, handler, task, project, leases>>

\* api.getTask of the URL or id: strategy answered
TaskFetched ==
  /\ pc = "awaitTask"
  /\ \E t \in TasksWithId(LastCall.arg) : task' = t
  /\ calls' = Settled(Len(calls), "ok")
  /\ Advance
  /\ results' = <<>>
  /\ UNCHANGED <<argv, env, now, tz, projects, cmd, pos, flags, handler, project, leases>>

\* the rejection turned into the resolver's own not-found failure
TaskFetchFailed_notFound ==
  /\ pc = "awaitTask"
  /\ calls' = Settled(Len(calls), "failed")
  /\ fatal([Err("NotFound") EXCEPT !.entity = "task", !.ref = Ref,
                                    !.forms = AcceptedForms])
  /\ results' = <<>>
  /\ UNCHANGED <<argv, env, now, tz, projects, cmd, pos, flags, handler, task, project, leases>>

\* api.getTask of the URL or id: strategy rejected: the promise resolveTaskRef
\* returned rejects in the handler, and main catches it
TaskFetchFailed ==
  /\ pc = "awaitTask"
  /\ calls' = Settled(Len(calls), "failed")
  /\ catch
  /\ results' = <<>>
  /\ UNCHANGED <<argv, env, now, tz, projects, cmd, pos, flags, handler, task, project, leases>>

\* lines 138-143: the raw id fallback and the terminal failure
TaskRawIdFallback(ref, settled) ==
  IF looksLikeRawId(ref)
  THEN /\ calls' = Append(settled, Call("getTask", ref, "resolveTaskRef", {}))
       /\ Await("awaitTaskFallback")
  ELSE /\ calls' = settled
       /\ fatal([Err("NotFound") EXCEPT !.entity = "task", !.ref = ref,
                                    !.forms = AcceptedForms])

\* the search answered: exact match, substring match, ambiguity, fallback
TaskSearchReturned ==
  /\ pc = "awaitTaskSearch"
  /\ \E rs \in TaskResponses :
       LET ref == Ref
           exact == exactTasks(rs, ref)
           partial == partialTasks(rs, ref)
           settled == Settled(Len(calls), "ok")
       IN  /\ results' = rs
           /\ IF Len(exact) = 1
              THEN task' = exact[1] /\ calls' = settled /\ Advance
              ELSE IF Len(partial) = 1
              THEN task' = partial[1] /\ calls' = settled /\ Advance
              ELSE IF Len(partial) > 1
              THEN /\ fatal([Err("AmbiguousReference") EXCEPT
                               !.entity = "task", !.ref = ref,
                               !.matches = listedTasks(partial)])
                   /\ calls' = settled
                   /\ UNCHANGED task
              ELSE TaskRawIdFallback(ref, settled) /\ UNCHANGED task
  /\ UNCHANGED <<argv, env, now, tz, projects, cmd, pos, flags, handler, project, leases>>

\* the search outside the try: main catches its rejection
TaskSearchFailed_propagated ==
  /\ pc = "awaitTaskSearch"
  /\ calls' = Settled(Len(calls), "failed")
  /\ catch
  /\ results' = <<>>
  /\ UNCHANGED <<argv, env, now, tz, projects, cmd, pos, flags, handler, task, project, leases>>

\* the search rejected: caught at line 136, on to the raw id fallback
TaskSearchFailed ==
  /\ pc = "awaitTaskSearch"
  /\ TaskRawIdFallback(Ref, Settled(Len(calls), "failed"))
  /\ results' = <<>>
  /\ UNCHANGED <<argv, env, now, tz, projects, cmd, pos, flags, handler, task, project, leases>>

TaskFallbackFetched ==
  /\ pc = "awaitTaskFallback"
  /\ \E t \in TasksWithId(LastCall.arg) : task' = t
  /\ calls' = Settled(Len(calls), "ok")
  /\ Advance
  /\ results' = <<>>
  /\ UNCHANGED <<argv, env, now, tz, projects, cmd, pos, flags, handler, project, leases>>

\* the fallback fetch rejected: caught at line 140, on to line 143
TaskFallbackFailed ==
  /\ pc = "awaitTaskFallback"
  /\ calls' = Settled(Len(calls), "failed")
  /\ fatal([Err("NotFound") EXCEPT !.entity = "task", !.ref = Ref,
                                    !.forms = AcceptedForms])
  /\ results' = <<>>
  /\ UNCHANGED <<argv, env, now, tz, projects, cmd, pos, flags, handler, task, project, leases>>

resolveProjectRef ==
  /\ At("resolveProject")
  /\ LET ref == Cur.ref
         parsed == parseTodoistUrl(ref)
     IN  IF trim(ref) = <<>>
         THEN fatal([Err("EmptyReference") EXCEPT !.entity = "project"])
              /\ UNCHANGED calls
         ELSE IF parsed # null
         THEN IF wrongKind(parsed, "project")
              THEN fatal([Err("WrongUrlKind") EXCEPT !.entity = "project",
                                                      !.got = parsed.type])
                   /\ UNCHANGED calls
              ELSE /\ calls' = Append(calls, Call("getProject", parsed.id, "resolveProjectRef", {}))
                   /\ Await("awaitProject")
         ELSE IF isIdRef(ref)
         THEN /\ calls' = Append(calls, Call("getProject", extractId(ref), "resolveProjectRef", {}))
              /\ Await("awaitProject")
         ELSE /\ calls' = Append(calls, Call("getProjects", <<>>, "resolveProjectRef", {}))
              /\ Await("awaitProjectList")
  /\ results' = <<>>
  /\ UNCHANGED <<argv, env, now, tz, projects, cmd, pos, flags, handler, task, project, leases>>

ProjectFetched ==
  /\ pc = "awaitProject"
  /\ \E p \in ProjectsWithId(LastCall.arg) : project' = p
  /\ calls' = Settled(Len(calls), "ok")
  /\ Advance
  /\ results' = <<>>
  /\ UNCHANGED <<argv, env, now, tz, projects, cmd, pos, flags, handler, task, leases>>

\* a rejected direct fetch caught, on to the listing
ProjectFetchFailed_fallsThrough ==
  /\ pc = "awaitProject"
  /\ calls' = Append(Settled(Len(calls), "failed"),
                     Call("getProjects", <<>>, "resolveProjectRef", {}))
  /\ Await("awaitProjectList")
  /\ results' = <<>>
  /\ UNCHANGED <<argv, env, now, tz, projects, cmd, pos, flags, handler, task, project, leases>>

ProjectFetchFailed ==
  /\ pc = "awaitProject"
  /\ calls' = Settled(Len(calls), "failed")
  /\ catch
  /\ results' = <<>>
  /\ UNCHANGED <<argv, env, now, tz, projects, cmd, pos, flags, handler, task, project, leases>>

\* lines 170-174
ProjectRawIdFallback(ref, settled) ==
  IF looksLikeRawId(ref)
  THEN /\ calls' = Append(settled, Call("getProject", ref, "resolveProjectRef", {}))
       /\ Await("awaitProjectFallback")
  ELSE /\ calls' = settled
       /\ fatal([Err("NotFound") EXCEPT !.entity = "project", !.ref = ref,
                                    !.forms = AcceptedForms])

ProjectListReturned ==
  /\ pc = "awaitProjectList"
  /\ \E rs \in ProjectResponses :
       LET ref == Ref
           exact == exactProjects(rs, ref)
           partial == partialProjects(rs, ref)
           settled == Settled(Len(calls), "ok")
       IN  /\ results' = rs
           /\ IF Len(exact) = 1
              THEN project' = exact[1] /\ calls' = settled /\ Advance
              ELSE IF Len(partial) = 1
              THEN project' = partial[1] /\ calls' = settled /\ Advance
              ELSE IF Len(partial) > 1
              THEN /\ fatal([Err("AmbiguousReference") EXCEPT
                               !.entity = "project", !.ref = ref,
                               !.matches = listedProjects(partial)])
                   /\ calls' = settled
                   /\ UNCHANGED project
              ELSE ProjectRawIdFallback(ref, settled) /\ UNCHANGED project
  /\ UNCHANGED <<argv, env, now, tz, projects, cmd, pos, flags, handler, task, leases>>

\* the listing wrapped in a try like the task search
ProjectListFailed_swallowed ==
  /\ pc = "awaitProjectList"
  /\ ProjectRawIdFallback(Ref, Settled(Len(calls), "failed"))
  /\ results' = <<>>
  /\ UNCHANGED <<argv, env, now, tz, projects, cmd, pos, flags, handler, task, project, leases>>

\* api.getProjects() at line 157 is not inside a try: main catches it
ProjectListFailed ==
  /\ pc = "awaitProjectList"
  /\ calls' = Settled(Len(calls), "failed")
  /\ catch
  /\ results' = <<>>
  /\ UNCHANGED <<argv, env, now, tz, projects, cmd, pos, flags, handler, task, project, leases>>

ProjectFallbackFetched ==
  /\ pc = "awaitProjectFallback"
  /\ \E p \in ProjectsWithId(LastCall.arg) : project' = p
  /\ calls' = Settled(Len(calls), "ok")
  /\ Advance
  /\ results' = <<>>
  /\ UNCHANGED <<argv, env, now, tz, projects, cmd, pos, flags, handler, task, leases>>

ProjectFallbackFailed ==
  /\ pc = "awaitProjectFallback"
  /\ calls' = Settled(Len(calls), "failed")
  /\ fatal([Err("NotFound") EXCEPT !.entity = "project", !.ref = Ref,
                                    !.forms = AcceptedForms])
  /\ results' = <<>>
  /\ UNCHANGED <<argv, env, now, tz, projects, cmd, pos, flags, handler, task, project, leases>>

\* ------------------------------------------------- the handlers' other steps
\* isIdRef(x) ? extractId(x) : x  (comment and reminder ids)
IdOf(x) == IF isIdRef(x) THEN extractId(x) ELSE x

Target_positional(target) ==
  CASE target \in {"task", "pos"} -> Pos0(pos)
    [] target = "project" -> project.id
    [] target = "id" -> IdOf(Pos0(pos))
    [] OTHER -> <<>>

Target(target) ==
  CASE target = "task" -> task.id
    [] target = "project" -> project.id
    [] target = "pos" -> Pos0(pos)
    [] target = "id" -> IdOf(Pos0(pos))
    [] OTHER -> <<>>

\* parseInt(s) of a string that need not be a numeral: the number its leading
\* digits denote, NaN when it has none
LeadingDigits(s) ==
  SubSeq(s, 1, CHOOSE n \in 0..Len(s) :
                 /\ \A k \in 1..n : s[k] \in Digits
                 /\ (n = Len(s) \/ s[n + 1] \notin Digits))
\* the number is mapped from the p1-p4 of the user interface to the stored 4-1
parseIntOrNaN_remapped(s) ==
  [isNaN |-> LeadingDigits(s) = <<>>, n |-> 5 - parseInt(LeadingDigits(s))]
parseIntOrNaN(s) ==
  [isNaN |-> LeadingDigits(s) = <<>>, n |-> parseInt(LeadingDigits(s))]

\* cmdAdd, cmdUpdate, cmdMove: the args built from the options, as far as
\* modelled (cmdMove: args.projectId = project.id when --project was resolved)
TaskArgs ==
  IF Cur.op \in {"addTask", "updateTask"} /\ Flag(flags, S_priority) # undefined
  THEN [priority |-> parseIntOrNaN(Flag(flags, S_priority))]
  ELSE IF Cur.op \in {"addTask", "updateTask"} THEN <<>>
  ELSE IF Cur.op = "moveTask" /\ project # null THEN [projectId |-> project.id]
  ELSE IF Cur.op = "moveTask" THEN <<>>
  ELSE {}

\* the task the service answers addTask with: it stores the content and the
\* priority it was sent, 1 when it was sent none
AddedTask(content, args) ==
  [TaskOf(<<"n","1">>, content, null) EXCEPT
     !.priority = IF "priority" \in DOMAIN args /\ ~args.priority.isNaN
                  THEN args.priority.n ELSE 1]

\* a handler's own call on the SDK client
apiCall ==
  /\ At("call")
  /\ calls' = Append(calls, Call(Cur.op, Target(Cur.target), "handler", TaskArgs))
  /\ Await("awaitCall")
  /\ results' = <<>>
  /\ UNCHANGED <<argv, env, now, tz, projects, cmd, pos, flags, handler, task, project, leases>>

\* cmdReview's Promise.all: the three reads are issued together
promiseAll ==
  /\ At("promiseAll")
  /\ calls' = calls \o [i \in 1..Len(Cur.ops) |-> Call(Cur.ops[i], <<>>, "handler", {})]
  /\ Await("awaitCall")
  /\ results' = <<>>
  /\ UNCHANGED <<argv, env, now, tz, projects, cmd, pos, flags, handler, task, project, leases>>

\* Promise.race in place of Promise.all: on with the first answer
CallReturned_race ==
  /\ pc = "awaitCall"
  /\ \E i \in Pending :
       /\ calls' = Settled(i, "ok")
       /\ Advance
       /\ IF cmd = "inbox" /\ calls[i].op = "getProjects"
          THEN results' \in ProjectResponses
          ELSE IF cmd = "review"
          THEN IF calls[i].op = "getTasks"
               THEN results' \in TaskResponses
               ELSE results' = results
          ELSE results' = <<>>
       /\ IF cmd = "review" /\ calls[i].op = "getProjects"
          THEN projects' \in ReviewProjectResponses
          ELSE projects' = projects
       /\ IF calls[i].op = "addTask"
          THEN task' = AddedTask(calls[i].arg, calls[i].fields)
          ELSE task' = task
  /\ UNCHANGED <<argv, env, now, tz, cmd, pos, flags, handler, project, leases>>

\* one awaited call answers; the handler goes on when none is pending
CallReturned ==
  /\ pc = "awaitCall"
  /\ \E i \in Pending :
       /\ calls' = Settled(i, "ok")
       /\ IF Pending = {i} THEN Advance ELSE Await("awaitCall")
       /\ IF cmd = "inbox" /\ calls[i].op = "getProjects"
          THEN results' \in ProjectResponses
          ELSE IF cmd = "review"
          THEN IF calls[i].op = "getTasks"
               THEN results' \in TaskResponses
               ELSE results' = results
          ELSE results' = <<>>
       /\ IF cmd = "review" /\ calls[i].op = "getProjects"
          THEN projects' \in ReviewProjectResponses
          ELSE projects' = projects
       /\ IF calls[i].op = "addTask"
          THEN task' = AddedTask(calls[i].arg, calls[i].fields)
          ELSE task' = task
  /\ UNCHANGED <<argv, env, now, tz, cmd, pos, flags, handler, project, leases>>

\* the rejection is dropped and the handler keeps waiting
CallFailed_ignored ==
  /\ pc = "awaitCall"
  /\ \E i \in Pending : calls' = Settled(i, "failed")
  /\ Await("awaitCall")
  /\ results' = <<>>
  /\ UNCHANGED <<argv, env, now, tz, projects, cmd, pos, flags, handler, task, project, leases>>

\* one awaited call rejects: the handler throws, main catches
CallFailed ==
  /\ pc = "awaitCall"
  /\ \E i \in Pending : calls' = Settled(i, "failed")
  /\ catch
  /\ results' = <<>>
  /\ UNCHANGED <<argv, env, now, tz, projects, cmd, pos, flags, handler, task, project, leases>>

\* cmdInbox: projects.find(p => p.isInboxProject)
findInbox ==
  /\ At("findInbox")
  /\ LET found == SelectSeq(results, LAMBDA p : p.isInboxProject)
     IN  IF found = <<>>
         THEN fatal(Err("NoInbox")) /\ UNCHANGED project
         ELSE project' = found[1] /\ Advance
  /\ results' = <<>>
  /\ UNCHANGED <<argv, env, now, tz, projects, cmd, pos, flags, handler, task, calls, leases>>

\* cmdReminderAdd line 431
reminderOptions ==
  /\ At("reminderOptions")
  /\ IF Flag(flags, S_before) = undefined /\ Flag(flags, S_at) = undefined
     THEN fatal([Err("UsageError") EXCEPT !.got = cmd])
     ELSE Advance
  /\ results' = <<>>
  /\ UNCHANGED <<argv, env, now, tz, projects, cmd, pos, flags, handler, task, project, calls, leases>>

\* the check of task.due left out
reminderBefore_noDueCheck ==
  /\ At("reminderBefore")
  /\ \E before \in {Flag(flags, S_before)} :
       IF before # undefined /\ ~parseDuration(before).matched
       THEN fatal(Err("InvalidDuration"))
       ELSE Advance
  /\ results' = <<>>
  /\ UNCHANGED <<argv, env, now, tz, projects, cmd, pos, flags, handler, task, project, calls, leases>>

\* cmdReminderAdd lines 438-445
reminderBefore ==
  /\ At("reminderBefore")
  /\ \E before \in {Flag(flags, S_before)} :
       IF before # undefined
       THEN IF ~parseDuration(before).matched
            THEN fatal(Err("InvalidDuration"))
            ELSE IF task.due = null
            THEN fatal(Err("NoDueDate"))
            ELSE Advance
       ELSE Advance
  /\ results' = <<>>
  /\ UNCHANGED <<argv, env, now, tz, projects, cmd, pos, flags, handler, task, project, calls, leases>>

\* the fields of the reminder_add command besides item_id (lines 465-469)
ReminderFields ==
  (IF Flag(flags, S_before) # undefined THEN {"minute_offset"} ELSE {})
  \cup (IF Flag(flags, S_at) # undefined THEN {"due"} ELSE {})

\* fetch() on the Sync API
fetchCall ==
  /\ At("fetch")
  /\ calls' = Append(calls,
       CASE Cur.op = "reminder_add" ->
              Call("reminder_add", task.id, "handler", ReminderFields)
         [] Cur.op = "reminder_delete" ->
              Call("reminder_delete", IdOf(Pos0(pos)), "handler", {})
         [] OTHER -> Call(Cur.op, <<>>, "handler", {}))
  /\ Await("awaitFetch")
  /\ results' = <<>>
  /\ UNCHANGED <<argv, env, now, tz, projects, cmd, pos, flags, handler, task, project, leases>>

\* the response has resp.ok; cmdReminders then parses the body, which can throw
FetchReturned ==
  /\ pc = "awaitFetch"
  /\ calls' = Settled(Len(calls), "ok")
  /\ \/ Advance
     \/ cmd = "reminders" /\ catch
  /\ results' = <<>>
  /\ UNCHANGED <<argv, env, now, tz, projects, cmd, pos, flags, handler, task, project, leases>>

\* the response has !resp.ok
FetchNotOk ==
  /\ pc = "awaitFetch"
  /\ calls' = Settled(Len(calls), "httpError")
  /\ fatal(Err("HttpError"))
  /\ results' = <<>>
  /\ UNCHANGED <<argv, env, now, tz, projects, cmd, pos, flags, handler, task, project, leases>>

\* fetch() itself rejects
FetchFailed ==
  /\ pc = "awaitFetch"
  /\ calls' = Settled(Len(calls), "failed")
  /\ catch
  /\ results' = <<>>
  /\ UNCHANGED <<argv, env, now, tz, projects, cmd, pos, flags, handler, task, project, leases>>

\* cmdReview: today = new Date(); today.setHours(0, 0, 0, 0) is the midnight
\* that began the current local day
today == now - ((now + tz) % 1440)

\* cmdReview: the overdue filter over the full listing
overdue(allTasks) ==
  SelectSeq(allTasks, LAMBDA t :
    /\ t.due # null
    /\ t.due.date \notin {noString, <<>>}
    /\ DateParse(t.due.date) < today)

formatTasks(ts) == [i \in 1..Len(ts) |-> formatTask(ts[i])]

\* the first listed project taken for the inbox, flagged or not
inboxTasks_firstProject(allTasks, projs) ==
  IF projs = <<>> THEN <<>>
  ELSE SelectSeq(allTasks, LAMBDA t : t.projectId = projs[1].id)

\* inbox ? allTasks.filter(t => t.projectId === inbox.id) : []
inboxTasks(allTasks, projs) ==
  LET found == SelectSeq(projs, LAMBDA p : p.isInboxProject)
  IN  IF found = <<>> THEN <<>>
      ELSE SelectSeq(allTasks, LAMBDA t : t.projectId = found[1].id)

\* allTasks.filter(t => !t.due)
noDue(allTasks) == SelectSeq(allTasks, LAMBDA t : t.due = null)

\* projects.filter(p => !p.isInboxProject).map(p => ({id, name, taskCount}))
projectCounts(allTasks, projs) ==
  LET others == SelectSeq(projs, LAMBDA p : ~p.isInboxProject)
  IN  [i \in 1..Len(others) |->
         [id |-> others[i].id, name |-> others[i].name,
          taskCount |->
            Len(SelectSeq(allTasks, LAMBDA t : t.projectId = others[i].id))]]

\* the result a handler hands to ok(...), as far as it is built from tasks
Result ==
  CASE cmd = "review" ->
         [inbox |-> [count |-> Len(inboxTasks(results, projects)),
                     tasks |-> formatTasks(inboxTasks(results, projects))],
          overdue |-> [count |-> Len(overdue(results)),
                       tasks |-> formatTasks(overdue(results))],
          floating |-> [count |-> Len(noDue(results))],
          projects |-> projectCounts(results, projects),
          total |-> Len(results)]
    [] cmd \in {"show", "add"} -> formatTask(task)
    [] cmd = "complete" -> [completed |-> formatTask(task)]
    [] cmd = "reopen" -> [task |-> formatTask(task)]
    [] OTHER -> null

\* the handler's closing ok(...)
emitOk ==
  /\ At("ok")
  /\ ok(cmd, Result, Cur.nextActions)
  /\ results' = <<>>
  /\ UNCHANGED <<argv, env, now, tz, projects, cmd, pos, flags, handler, task, project, calls, leases>>

Next ==
  \/ main
  \/ getToken
  \/ resolveTaskRef
  \/ TaskFetched
  \/ TaskFetchFailed
  \/ TaskSearchReturned
  \/ TaskSearchFailed
  \/ TaskFallbackFetched
  \/ TaskFallbackFailed
  \/ resolveProjectRef
  \/ ProjectFetched
  \/ ProjectFetchFailed
  \/ ProjectListReturned
  \/ ProjectListFailed
  \/ ProjectFallbackFetched
  \/ ProjectFallbackFailed
  \/ apiCall
  \/ promiseAll
  \/ CallReturned
  \/ CallFailed
  \/ findInbox
  \/ reminderOptions
  \/ reminderBefore
  \/ fetchCall
  \/ FetchReturned
  \/ FetchNotOk
  \/ FetchFailed
  \/ emitOk

Spec == Init /\ [][Next]_vars

\* Every step of the process is taken, and every remote call that is pending
\* returns or fails.
LiveSpec == Spec /\ WF_vars(Next)

\* review alone, at every instant in Nows and every offset in Offsets
ReviewInit ==
  /\ argv = <<"review">>
  /\ env \in BOOLEAN
  /\ now \in Nows
  /\ tz \in Offsets
  /\ Start

ReviewNext ==
  \/ main
  \/ getToken
  \/ promiseAll
  \/ CallReturned
  \/ CallFailed
  \/ emitOk

ReviewSpec == ReviewInit /\ [][ReviewNext]_vars

\* cmdShow about to emit its result: the task was fetched by id and can be any
\* well-formed task, the comments were fetched
FormatInit ==
  /\ argv = <<"show", <<"i","d",":","4","2">> >>
  /\ env = TRUE
  /\ now = Noon
  /\ tz = 0
  /\ pc = "run"
  /\ cmd = "show"
  /\ pos = <<Tail(argv)[1]>>
  /\ flags = <<>>
  /\ handler = Plan("show", pos, flags)
  /\ step = Len(handler)
  /\ task \in WellFormedTasks
  /\ project = null
  /\ results = <<>>
  /\ projects = <<>>
  /\ calls = << [Call("getTask", task.id, "resolveTaskRef", {}) EXCEPT !.status = "ok"],
                [Call("getComments", task.id, "handler", {}) EXCEPT !.status = "ok"] >>
  /\ leases = 0
  /\ stdout = <<>>
  /\ stderr = <<>>
  /\ exitCode = -1

FormatSpec == FormatInit /\ [][emitOk]_vars

\* the parsing of the command line alone: list followed by any tokens
MaxTokens == 3
Tokens ==
  {S_dashes \o S_filter, S_dashes \o S_label, S_dashes, V_text, V_2,
   <<"-","x">>, <<>>}
RECURSIVE TokenLists(_)
TokenLists(n) ==
  IF n = 0 THEN {<<>>}
  ELSE TokenLists(n - 1)
       \cup {Append(l, t) : l \in {x \in TokenLists(n - 1) : Len(x) = n - 1},
                            t \in Tokens}
ParseInit ==
  /\ argv \in {<<"list">> \o l : l \in TokenLists(MaxTokens)}
  /\ env \in BOOLEAN
  /\ now = Noon
  /\ tz = 0
  /\ Start

ParseSpec == ParseInit /\ [][main]_vars

\* show and sections --project handed anything that resembles an entity URL:
\* a scheme, the host and /app/, a kind word, and what follows it
UrlSchemes == Schemes \cup { <<"f","t","p">>, <<" ","h","t","t","p","s">> }
UrlKindWords == {S_task, S_project, S_label, S_filter, <<"s","e","c","t","i","o","n">>}
UrlTails ==
  { <<"/","b","u","y","-","m","i","l","k","-","4","2">>,
    <<"/","4","2">>,
    <<"/","a","-","b","-","7","?","x","=","1","-","2">>,
    <<"/","w","o","r","k","-","7","#","f","-","1">>,
    <<"/","4","2","/">>,
    <<"/","x","-","9","/","c","-","d">>,
    <<"/","m","i","l","k","-">>,
    <<"/","?","q">>,
    <<"/">>,
    <<"s","/","4","2">> }
UrlRefs ==
  {sc \o HostPath \o k \o t : sc \in UrlSchemes, k \in UrlKindWords, t \in UrlTails}

UrlInit ==
  /\ argv \in {<<"show", u>> : u \in UrlRefs}
             \cup {<<"sections">> \o Opt(S_project, u) : u \in UrlRefs}
  /\ env = TRUE
  /\ now = Noon
  /\ tz = 0
  /\ Start

UrlNext ==
  \/ main
  \/ getToken
  \/ resolveTaskRef
  \/ resolveProjectRef

UrlSpec == UrlInit /\ [][UrlNext]_vars

\* =================================================================== claims
\* Vocabulary of the properties below.
IsBlank(ref) == \A i \in 1..Len(ref) : ref[i] \in WhiteSpace
EqualsText(text, ref) == toLowerCase(text) = toLowerCase(ref)
ContainsText(text, ref) == includes(toLowerCase(text), toLowerCase(ref))
HasIdPrefix(ref) == Len(ref) >= 3 /\ ref[1] = "i" /\ ref[2] = "d" /\ ref[3] = ":"

\* the kinds k for which ref is a URL of the service for an entity of kind k
EntityUrlKinds(ref) ==
  {k \in {"task", "project", "label", "filter"} :
     \E sc \in Schemes, uk \in UrlKinds :
        LET head == sc \o HostPath \o uk.text \o <<"/">>
        IN  /\ uk.name = k
            /\ Len(ref) > Len(head)
            /\ SubSeq(ref, 1, Len(head)) = head
            /\ ref[Len(head) + 1] \notin {"?", "#"}}
IsEntityUrl(ref) == EntityUrlKinds(ref) # {}

StepsOf(kind) == {i \in 1..Len(handler) : handler[i].kind = kind}
\* the resolver of this kind of step has been called
Entered(kind) ==
  \E i \in StepsOf(kind) : step > i \/ (step = i /\ pc # "run")
\* the ref the handler passes to the resolver of this kind of step
RefOf(kind) ==
  IF StepsOf(kind) = {} THEN undefined
  ELSE handler[CHOOSE i \in StepsOf(kind) : TRUE].ref
CallsBy(by) == {i \in 1..Len(calls) : calls[i].by = by}
FailedCalls == {i \in 1..Len(calls) : calls[i].status \in {"failed", "httpError"}}
FailedWith(kind) ==
  exitCode = 1 /\ Len(stderr) = 1 /\ stdout = <<>> /\ stderr[1].error.kind = kind

\* the search or listing of a resolver has just answered with results
LastSearch ==
  LET S == {i \in 1..Len(calls) :
              calls[i].by # "handler"
              /\ calls[i].op \in {"getTasksByFilter", "getProjects"}}
  IN  IF S = {} THEN 0 ELSE CHOOSE i \in S : \A j \in S : i >= j
Answered(by) ==
  results # <<>> /\ LastSearch # 0 /\ calls[LastSearch].by = by
                 /\ calls[LastSearch].status = "ok"

\* the positions of rs whose display text equals / contains ref
ExactAt(texts, ref) == {i \in 1..Len(texts) : EqualsText(texts[i], ref)}
PartialAt(texts, ref) == {i \in 1..Len(texts) : ContainsText(texts[i], ref)}
TaskTexts == [i \in 1..Len(results) |-> results[i].content]
ProjectTexts == [i \in 1..Len(results) |-> results[i].name]

\* C1: when exactly one candidate of the search results (of the project
\* listing) equals ref ignoring case, the resolver returns that candidate,
\* however many other candidates contain ref.
C1_UniqueExactMatchWins ==
  /\ Answered("resolveTaskRef") =>
       \A i \in 1..Len(results) :
          ExactAt(TaskTexts, RefOf("resolveTask")) = {i} =>
             task = results[i] /\ pc = "run" /\ exitCode = -1
  /\ Answered("resolveProjectRef") =>
       \A i \in 1..Len(results) :
          ExactAt(ProjectTexts, RefOf("resolveProject")) = {i} =>
             project = results[i] /\ pc = "run" /\ exitCode = -1

C1_Witness ==
  /\ Answered("resolveTaskRef")
  /\ Cardinality(ExactAt(TaskTexts, RefOf("resolveTask"))) = 1
  /\ Cardinality(PartialAt(TaskTexts, RefOf("resolveTask"))) >= 3
  /\ task \in {results[i] : i \in ExactAt(TaskTexts, RefOf("resolveTask"))}

\* the k-th smallest element of a set of positions
Nth(S, k) == CHOOSE i \in S : Cardinality({j \in S : j <= i}) = k
\* the first min(n, 5) substring matches as (display text, id) pairs, in the
\* order of the response
FirstFive(texts, ref) ==
  LET P == PartialAt(texts, ref)
      n == IF Cardinality(P) < 5 THEN Cardinality(P) ELSE 5
  IN  [k \in 1..n |-> [text |-> texts[Nth(P, k)], id |-> results[Nth(P, k)].id]]

\* C2: when ref is contained in more than one candidate and equals none, the
\* resolver fails with AmbiguousReference listing the first min(n, 5)
\* substring matches as (display text, id), in the order of the response.
C2_AmbiguityListsFirstFive ==
  /\ ( /\ Answered("resolveTaskRef")
       /\ ExactAt(TaskTexts, RefOf("resolveTask")) = {}
       /\ Cardinality(PartialAt(TaskTexts, RefOf("resolveTask"))) > 1 ) =>
       /\ FailedWith("AmbiguousReference")
       /\ stderr[1].error.entity = "task"
       /\ stderr[1].error.matches = FirstFive(TaskTexts, RefOf("resolveTask"))
  /\ ( /\ Answered("resolveProjectRef")
       /\ ExactAt(ProjectTexts, RefOf("resolveProject")) = {}
       /\ Cardinality(PartialAt(ProjectTexts, RefOf("resolveProject"))) > 1 ) =>
       /\ FailedWith("AmbiguousReference")
       /\ stderr[1].error.entity = "project"
       /\ stderr[1].error.matches = FirstFive(ProjectTexts, RefOf("resolveProject"))

C2_Witness ==
  /\ Answered("resolveTaskRef")
  /\ ExactAt(TaskTexts, RefOf("resolveTask")) = {}
  /\ Cardinality(PartialAt(TaskTexts, RefOf("resolveTask"))) = 6
  /\ FailedWith("AmbiguousReference")
  /\ Len(stderr[1].error.matches) = 5

\* the outcome of a resolver that was handed a URL of another kind
WrongKindOutcome(kind, by, entity) ==
  (StepsOf(kind) # {} /\ IsEntityUrl(RefOf(kind))
   /\ entity \notin EntityUrlKinds(RefOf(kind))) =>
     /\ CallsBy(by) = {}
     /\ \A i \in StepsOf(kind) : step <= i
     /\ Entered(kind) =>
          /\ FailedWith("WrongUrlKind")
          /\ stderr[1].error.entity = entity
          /\ stderr[1].error.got \in EntityUrlKinds(RefOf(kind))

\* C3: a URL of the service whose kind segment is not the requested kind
\* fails with WrongUrlKind naming the kind found, and the resolver issues no
\* search, listing or fetch for it.
C3_WrongUrlKindIssuesNoCall ==
  /\ WrongKindOutcome("resolveTask", "resolveTaskRef", "task")
  /\ WrongKindOutcome("resolveProject", "resolveProjectRef", "project")

C3_Witness ==
  /\ Entered("resolveTask")
  /\ RefOf("resolveTask") = R_projectUrl
  /\ FailedWith("WrongUrlKind")
  /\ stderr[1].error.got = "project"
  /\ calls = <<>>

\* the calls of a resolver that was handed an id:-prefixed ref
IdPrefixOutcome(kind, by, fetchOp) ==
  (StepsOf(kind) # {} /\ HasIdPrefix(RefOf(kind))) =>
     /\ \A i \in CallsBy(by) :
          calls[i].op = fetchOp
          /\ calls[i].arg = SubSeq(RefOf(kind), 4, Len(RefOf(kind)))
     /\ Cardinality(CallsBy(by)) = (IF Entered(kind) THEN 1 ELSE 0)

\* C4: a ref with the prefix id: makes the resolver fetch the remainder of the
\* ref by id, exactly once, and issue no search or listing.
C4_IdPrefixFetchesDirectly ==
  /\ IdPrefixOutcome("resolveTask", "resolveTaskRef", "getTask")
  /\ IdPrefixOutcome("resolveProject", "resolveProjectRef", "getProject")

\* the remainder 42 and the whole ref id:42 both occur in a task's content
C4_Witness ==
  /\ cmd = "show"
  /\ RefOf("resolveTask") = R_id42
  /\ \E i \in 1..Len(TaskStore) : ContainsText(TaskStore[i].content, R_id42)
  /\ task # null
  /\ task.id = R_42
  /\ Len(calls) = 1
  /\ calls[1].op = "getTask"

\* the outcome of a resolver that was handed a blank ref
BlankOutcome(kind, by, entity) ==
  (StepsOf(kind) # {} /\ IsBlank(RefOf(kind))) =>
     /\ CallsBy(by) = {}
     /\ \A i \in StepsOf(kind) : step <= i
     /\ Entered(kind) =>
          FailedWith("EmptyReference") /\ stderr[1].error.entity = entity

\* C5: a blank ref fails with EmptyReference in task and in project
\* resolution, and the resolver issues no remote call.
C5_BlankRefFailsBeforeAnyCall ==
  /\ BlankOutcome("resolveTask", "resolveTaskRef", "task")
  /\ BlankOutcome("resolveProject", "resolveProjectRef", "project")
  /\ (StepsOf("resolveTask") # {} /\ IsBlank(RefOf("resolveTask"))) => calls = <<>>

C5_Witness ==
  /\ cmd = "complete"
  /\ RefOf("resolveTask") = R_blank
  /\ FailedWith("EmptyReference")
  /\ calls = <<>>

\* the ref is handled by the URL strategy or by the id: strategy
IsDirectRef(ref) == IsEntityUrl(ref) \/ HasIdPrefix(ref)
\* the by-id fetch of the URL or id: strategy of this resolver was rejected
DirectFetchFailed(kind, by) ==
  /\ StepsOf(kind) # {}
  /\ IsDirectRef(RefOf(kind))
  /\ \E i \in CallsBy(by) : calls[i].status = "failed"

NoReissue ==
  \A i, j \in 1..Len(calls) :
     i # j => <<calls[i].op, calls[i].arg>> # <<calls[j].op, calls[j].arg>>
EndedInFailure == exitCode = 1 /\ Len(stderr) = 1 /\ stdout = <<>>
IsTaskSearch(c) == c.by = "resolveTaskRef" /\ c.op = "getTasksByFilter"

\* C7 as stated: once a remote call has failed, the invocation has ended with
\* a failure envelope and exit code 1 (so no further call is issued), and no
\* call is issued twice.
C7_NoCallAfterAnyFailure ==
  /\ NoReissue
  /\ FailedCalls # {} => EndedInFailure

\* C7 amended: no call is issued twice, and once a remote call other than
\* the free-text search of task resolution has failed, the invocation has
\* ended with a failure envelope and exit code 1.  A failed task search is
\* swallowed: it either ends the invocation with NotFound, or is followed by
\* the one by-id fetch of ref itself, after which the invocation goes on.
C7_NoCallAfterFailureButTaskSearch ==
  /\ NoReissue
  /\ \A i \in FailedCalls :
       IF IsTaskSearch(calls[i])
       THEN IF i = Len(calls)
            THEN FailedWith("NotFound")
            ELSE /\ calls[i + 1].by = "resolveTaskRef"
                 /\ calls[i + 1].op = "getTask"
                 /\ calls[i + 1].arg = RefOf("resolveTask")
       ELSE EndedInFailure

\* a failed search, a fallback fetch that found the task, and a success
C7_Witness ==
  /\ cmd = "complete"
  /\ Len(calls) = 3
  /\ IsTaskSearch(calls[1])
  /\ calls[1].status = "failed"
  /\ calls[2].status = "ok"
  /\ calls[3].op = "closeTask"
  /\ exitCode = 0

\* C8: exit code 0 goes with exactly one success envelope on standard output,
\* exit code 1 with exactly one failure envelope on standard error; an
\* unknown command ends with exit code 1; never both envelopes.
C8_ExitCodeMatchesEnvelope ==
  /\ exitCode = 0 <=> (Len(stdout) = 1 /\ stdout[1].ok)
  /\ exitCode = 1 <=> (Len(stderr) = 1 /\ ~stderr[1].ok)
  /\ Len(stdout) + Len(stderr) <= 1
  /\ pc = "exited" <=> exitCode \in {0, 1}
  /\ (pc = "exited" /\ argv # <<>> /\ argv[1] \notin Commands \cup HelpCommands) =>
       exitCode = 1

C8_Witness ==
  /\ argv = <<"bogus">>
  /\ FailedWith("UnknownCommand")

\* C9: nothing is written while the process runs, and the process eventually
\* ends having written exactly one document.
C9_ExitsAfterOneDocument ==
  /\ [](exitCode = -1 => stdout = <<>> /\ stderr = <<>>)
  /\ <>(exitCode # -1 /\ Len(stdout) + Len(stderr) = 1)

C9_Witness ==
  /\ cmd = "review"
  /\ Len(calls) = 3
  /\ \A i \in 1..3 : calls[i].status = "ok"
  /\ exitCode = 0
  /\ Len(stdout) = 1
  /\ stderr = <<>>

\* C10: reminder-add with --before on a resolved task without a due value
\* never sends a reminder_add command and ends in failure, with or without
\* --at.
C10_BeforeNeedsDue ==
  ( /\ cmd = "reminder-add"
    /\ Flag(flags, S_before) # undefined
    /\ task # null
    /\ task.due = null ) =>
      /\ \A i \in 1..Len(calls) : calls[i].op # "reminder_add"
      /\ \A i \in StepsOf("reminderBefore") : step <= i
      /\ exitCode # 0
      /\ Entered("reminderBefore") =>
           EndedInFailure /\ stderr[1].error.kind \in {"InvalidDuration", "NoDueDate"}

C10_Witness ==
  /\ cmd = "reminder-add"
  /\ Flag(flags, S_before) = V_30m
  /\ Flag(flags, S_at) = V_at
  /\ task # null
  /\ task.due = null
  /\ FailedWith("NoDueDate")
  /\ \A i \in 1..Len(calls) : calls[i].op # "reminder_add"

\* the handler of reminder-add has been entered with these two options
ReminderAddWith(before, at) ==
  /\ cmd = "reminder-add"
  /\ handler # <<>>
  /\ (Flag(flags, S_before) # undefined) = before
  /\ (Flag(flags, S_at) # undefined) = at
ReminderAddCalls == {i \in 1..Len(calls) : calls[i].op = "reminder_add"}

\* C11: reminder-add requires exactly one of --before and --at: with neither
\* the handler fails with a usage error before any remote call, and every
\* reminder_add command sent carries exactly one of minute_offset and due.
C11_ExactlyOneReminderField ==
  /\ (ReminderAddWith(FALSE, FALSE) /\ (step > 1 \/ pc = "exited")) =>
       FailedWith("UsageError") /\ calls = <<>> /\ leases = 0
  /\ \A i \in ReminderAddCalls :
       calls[i].fields \in {{"minute_offset"}, {"due"}}

\* the current local day and the day of a date-only due date, in days since
\* the epoch
LocalDay == (now + tz) \div 1440
DueDay(t) ==
  DaysFromCivil(parseInt(SubSeq(t.due.date, 1, 4)),
                parseInt(SubSeq(t.due.date, 6, 7)),
                parseInt(SubSeq(t.due.date, 9, 10)))
HasDueDate(t) == t.due # null /\ t.due.date # noString
DueBeforeLocalDay(ts) ==
  SelectSeq(ts, LAMBDA t : HasDueDate(t) /\ DueDay(t) < LocalDay)

\* C12: the overdue subset review emits holds exactly the tasks of the full
\* listing whose due date is a day before the current local day, whatever the
\* time of day and the timezone offset.
C12_OverdueIsBeforeLocalDay ==
  (At("ok") /\ cmd = "review") =>
     Result.overdue.tasks = formatTasks(DueBeforeLocalDay(results))

\* show has emitted the formatted task
Shown == cmd = "show" /\ exitCode = 0 /\ Len(stdout) = 1
\* the due of the task carries only a description: no date, no date-time
OnlyDescription(t) ==
  /\ t.due # null
  /\ t.due.date = noString
  /\ t.due.datetime = noString
  /\ t.due.string # noString

\* C13: formatTask yields the explicit date if there is one, else the
\* date-time, else null; the description and the recurrence flag are passed
\* on; a task with no due yields null, null and false.  A due with only a
\* description yields due null, the description and the source flag.
C13_DueIsDateElseDatetimeElseNull ==
  Shown =>
    LET r == stdout[1].result
    IN  /\ task.due = null =>
             r.due = noString /\ r.dueString = noString /\ r.isRecurring = FALSE
        /\ task.due # null =>
             /\ task.due.date # noString => r.due = task.due.date
             /\ (task.due.date = noString /\ task.due.datetime # noString) =>
                    r.due = task.due.datetime
             /\ (task.due.date = noString /\ task.due.datetime = noString) =>
                    r.due = noString
             /\ r.dueString = task.due.string
             /\ r.isRecurring = task.due.isRecurring
        /\ OnlyDescription(task) =>
             /\ r.due = noString
             /\ r.dueString = V_everyDay
             /\ r.isRecurring = task.due.isRecurring

C13_Witness ==
  /\ Shown
  /\ OnlyDescription(task)
  /\ task.due.isRecurring
  /\ stdout[1].result.due = noString
  /\ stdout[1].result.dueString = V_everyDay
  /\ stdout[1].result.isRecurring

\* the keys every formatted task has, and the keys it has besides, by policy
AlwaysKeys ==
  {"id", "content", "priority", "due", "dueString", "isRecurring", "deadline",
   "projectId", "url"}
PresentKeys(t) ==
  (IF t.description # <<>> THEN {"description"} ELSE {})
  \cup (IF t.labels # <<>> THEN {"labels"} ELSE {})
  \cup (IF t.sectionId # noString THEN {"sectionId"} ELSE {})
  \cup (IF t.parentId # noString THEN {"parentId"} ELSE {})

\* C14: formatTask yields a document for every well-formed task and changes
\* nothing else; description, labels, sectionId and parentId are left out
\* when empty or absent, due, dueString and deadline are always present (null
\* when absent), and id, content, priority, projectId and url are copied.
C14_OmissionOverNull ==
  /\ (At("ok") /\ cmd = "show") => DOMAIN formatTask(task) \subseteq AlwaysKeys \cup PresentKeys(task)
  /\ Shown =>
       LET r == stdout[1].result
       IN  /\ DOMAIN r = AlwaysKeys \cup PresentKeys(task)
           /\ \A k \in PresentKeys(task) : r[k] = task[k]
           /\ task.deadline = null => r.deadline = noString
           /\ task.deadline # null => r.deadline = task.deadline.date
           /\ r.id = task.id
           /\ r.content = task.content
           /\ r.priority = task.priority
           /\ r.projectId = task.projectId
           /\ r.url = task.url
           /\ task \in WellFormedTasks
           /\ Len(calls) = 2

C14_Witness ==
  /\ Shown
  /\ PresentKeys(task) = {}
  /\ task.due = null
  /\ task.deadline = null
  /\ DOMAIN stdout[1].result = AlwaysKeys
  /\ stdout[1].result.deadline = noString

\* C15: every success envelope carries a non-empty list of suggested next
\* commands, whatever the verb.
C15_EverySuccessHasNextActions ==
  \A k \in 1..Len(stdout) :
     (stdout[k].ok /\ stdout[k].command \in Commands) =>
        stdout[k].next_actions > 0

\* the classification of the tokens after the command word that the claim
\* describes: a token that starts with -- is a flag name, a token that does
\* not and follows a flag name is that flag's value, any other is positional
IsFlagName(rest, i) ==
  Len(rest[i]) >= 2 /\ rest[i][1] = "-" /\ rest[i][2] = "-"
IsFlagValue(rest, i) ==
  i > 1 /\ ~IsFlagName(rest, i) /\ IsFlagName(rest, i - 1)
IsPositional(rest, i) == ~IsFlagName(rest, i) /\ ~IsFlagValue(rest, i)
RECURSIVE PositionalsFrom(_, _)
PositionalsFrom(rest, i) ==
  IF i > Len(rest) THEN <<>>
  ELSE (IF IsPositional(rest, i) THEN <<rest[i]>> ELSE <<>>)
       \o PositionalsFrom(rest, i + 1)
FlagKey(rest, i) == SubSeq(rest[i], 3, Len(rest[i]))
\* the value of the flag named at position i
FlagValueAt(rest, i) ==
  IF i < Len(rest) /\ IsFlagValue(rest, i + 1) THEN rest[i + 1] ELSE S_true
Parsed == pc # "main" /\ Len(argv) > 0

\* C16: every --flag followed by a token that does not start with -- is
\* paired with that token, every other --flag has the value true, and the
\* positional list is the remaining tokens in their order.
C16_TokensClassifiedOnce ==
  Parsed =>
    LET rest == Tail(argv)
        names == {i \in 1..Len(rest) : IsFlagName(rest, i)}
    IN  /\ pos = PositionalsFrom(rest, 1)
        /\ DOMAIN flags = {FlagKey(rest, i) : i \in names}
        /\ \A i \in names :
             (\A j \in names : j > i => FlagKey(rest, j) # FlagKey(rest, i)) =>
                flags[FlagKey(rest, i)] = FlagValueAt(rest, i)

\* the credential lookups made so far: the getToken steps the handler has
\* passed, and the one it failed at
Lookups ==
  Cardinality({i \in StepsOf("getToken") : i < step})
  + (IF FailedWith("CredentialMissing") THEN 1 ELSE 0)

\* C17 as stated: with the variable set the lease process is never run;
\* without it the lease process is run; when both fail the invocation ends
\* with the failure envelope and exit code 1 and no remote call is issued.
C17_NoCallWhenCredentialMissing ==
  /\ env => leases = 0 /\ ~FailedWith("CredentialMissing")
  /\ ~env => leases = Lookups
  /\ FailedWith("CredentialMissing") => ~env /\ leases >= 1 /\ calls = <<>>

\* C17 amended: as above, but the remote calls that are ruled out are those
\* after the failed lookup and those before the first lookup: reminders and
\* reminder-add look the credential up a second time after they resolved the
\* task, and that lookup can fail when calls were already issued.
C17_NoCallAfterFailedLookup ==
  /\ env => leases = 0 /\ ~FailedWith("CredentialMissing")
  /\ ~env => leases = Lookups
  /\ calls # <<>> => env \/ leases >= 1
  /\ FailedWith("CredentialMissing") =>
       /\ ~env
       /\ leases >= 1
       /\ Pending = {}
       /\ leases = 1 => calls = <<>>
       /\ calls # <<>> => cmd \in {"reminders", "reminder-add"} /\ leases = 2

C17_Witness ==
  /\ cmd = "reminder-add"
  /\ FailedWith("CredentialMissing")
  /\ leases = 2
  /\ calls # <<>>
  /\ \A i \in 1..Len(calls) : calls[i].status = "ok"

\* main has parsed the command line and a required argument of the verb is
\* missing: the positional argument, --content of comment-add and
\* comment-update, --project of add-section, both options of reminder-add
RequiredMissing ==
  /\ pc # "main"
  /\ \/ cmd \in {"search", "show", "add", "complete", "reopen", "update",
                 "move", "delete", "comments", "comment-add", "comment-update",
                 "comment-delete", "reminders", "reminder-add",
                 "reminder-delete", "add-project", "add-section"}
        /\ pos = <<>>
     \/ cmd \in {"comment-add", "comment-update"} /\ S_content \notin DOMAIN flags
     \/ cmd = "add-section" /\ S_project \notin DOMAIN flags
     \/ cmd = "reminder-add" /\ S_before \notin DOMAIN flags
                            /\ S_at \notin DOMAIN flags

ResolverDone(kind) ==
  \E i \in StepsOf(kind) : step > i \/ (step = i /\ pc = "exited")
\* what it produced: the entity, or the kind of its failure
Outcome(kind) ==
  IF \E i \in StepsOf(kind) : step > i THEN "entity"
  ELSE stderr[1].error.kind
\* the resolver's candidate-source calls (search or listing), its by-id fetches
SourceCalls(by) ==
  {i \in CallsBy(by) : calls[i].op \in {"getTasksByFilter", "getProjects"}}
FetchCalls(by) == CallsBy(by) \ SourceCalls(by)
FetchedOrNotFound(by) ==
  IF \E j \in FetchCalls(by) : calls[j].status = "ok" THEN "entity" ELSE "NotFound"

\* the outcome of a resolver as a function of the shape of the ref and of the
\* outcomes of its calls: the rule resolveTaskRef follows
ResolverRule(kind, by, entity) ==
  ResolverDone(kind) =>
    LET ref == RefOf(kind)
        o == Outcome(kind)
        wrong == IsEntityUrl(ref) /\ entity \notin EntityUrlKinds(ref)
    IN  /\ IsBlank(ref) => o = "EmptyReference"
        /\ wrong => o = "WrongUrlKind"
        /\ (IsDirectRef(ref) /\ ~wrong) =>
              o = (IF \E j \in FetchCalls(by) : calls[j].status = "ok"
                   THEN "entity" ELSE "RemoteFailure")
        /\ (\E i \in SourceCalls(by) : calls[i].status = "failed") =>
              o = FetchedOrNotFound(by)
        /\ (\E i \in SourceCalls(by) : calls[i].status = "ok") =>
              /\ o \in {"entity", "AmbiguousReference", "NotFound"}
              /\ FetchCalls(by) # {} => o = FetchedOrNotFound(by)

\* C19: project resolution produces the same kind of outcome as task
\* resolution for the same shape of ref and the same outcomes of the
\* candidate-source call and of the by-id fetches, also when the candidate
\* source call (listing or search) fails.
C19_ProjectMirrorsTask ==
  /\ ResolverRule("resolveTask", "resolveTaskRef", "task")
  /\ ResolverRule("resolveProject", "resolveProjectRef", "project")

\* the number N of add's option --priority N, for the numerals among the inputs
PriorityGiven ==
  CASE Flag(flags, S_priority) = V_2 -> 2
    [] Flag(flags, S_priority) = V_4 -> 4
    [] OTHER -> 0
AddTaskCalls == {i \in 1..Len(calls) : calls[i].op = "addTask"}

\* C20: add with --priority N sends N itself to the create call, and the
\* priority of the created task is emitted as stored: nothing maps p1-p4.
C20_PriorityPassedUnchanged ==
  (cmd = "add" /\ PriorityGiven # 0) =>
     /\ \A i \in AddTaskCalls :
          /\ "priority" \in DOMAIN calls[i].fields
          /\ ~calls[i].fields.priority.isNaN
          /\ calls[i].fields.priority.n = PriorityGiven
     /\ exitCode = 0 =>
          /\ task.priority = PriorityGiven
          /\ stdout[1].result.priority = task.priority

C20_Witness ==
  /\ cmd = "add"
  /\ Flag(flags, S_priority) = V_2
  /\ exitCode = 0
  /\ Cardinality(AddTaskCalls) = 1
  /\ stdout[1].result.priority = 2

\* ------------------------------------------------------------ C21 .. C30
\* the remote operations that change data, as the mutating handlers issue them
MutatingOps ==
  {"closeTask", "reopenTask", "deleteTask", "updateTask", "moveTask",
   "addComment", "reminder_add"}
MutatingHandlers ==
  {"complete", "reopen", "delete", "update", "move", "comment-add", "reminder-add"}
MutatingCalls == {i \in 1..Len(calls) : calls[i].op \in MutatingOps}
ResolverSteps == StepsOf("resolveTask") \cup StepsOf("resolveProject")
ResolutionErrors ==
  {"EmptyReference", "WrongUrlKind", "AmbiguousReference", "NotFound"}

\* C21: a mutating handler issues its mutating call only after every ref it
\* was given has resolved to one entity, the call is addressed to the resolved
\* task's id (and move carries the resolved project's id); an invocation whose
\* resolution ended in EmptyReference, WrongUrlKind, AmbiguousReference or
\* NotFound contains no mutating call.
C21_MutationOnlyAfterResolution ==
  cmd \in MutatingHandlers =>
    /\ \A i \in MutatingCalls :
         /\ \A s \in ResolverSteps : step > s
         /\ task # null
         /\ calls[i].arg = task.id
         /\ (cmd = "move" /\ StepsOf("resolveProject") # {}) =>
              /\ project # null
              /\ calls[i].fields = [projectId |-> project.id]
    /\ (\E k \in ResolutionErrors : FailedWith(k)) => MutatingCalls = {}

C21_Witness ==
  /\ cmd = "move"
  /\ StepsOf("resolveProject") # {}
  /\ exitCode = 0
  /\ Cardinality(MutatingCalls) = 1
  /\ \E i \in MutatingCalls : calls[i].status = "ok" /\ calls[i].arg = task.id
  /\ task.id # RefOf("resolveTask")

\* the calls of one resolver follow the order of its strategies
StrategyOrder(kind, by) ==
  /\ Cardinality(SourceCalls(by)) <= 1
  /\ Cardinality(FetchCalls(by)) <= 1
  /\ \A s \in SourceCalls(by) : \A f \in FetchCalls(by) : s < f
  /\ StepsOf(kind) # {} =>
       /\ IsBlank(RefOf(kind)) => CallsBy(by) = {}
       /\ IsDirectRef(RefOf(kind)) => SourceCalls(by) = {}
  /\ ResolverDone(kind) => \A i \in CallsBy(by) : calls[i].status # "pending"

\* C22: the strategies run in the order empty check, URL, id: prefix, search,
\* raw-id fallback and stop at the first entity or terminal error: a resolve
\* issues at most one search or listing and at most one by-id fetch, never a
\* search after a fetch, none at all for a blank ref, no search for a URL or
\* id: ref, and no fetch after a search that gave a unique match or an
\* ambiguity.
C22_StrategiesInOrder ==
  /\ StrategyOrder("resolveTask", "resolveTaskRef")
  /\ StrategyOrder("resolveProject", "resolveProjectRef")
  /\ ( /\ Answered("resolveTaskRef")
       /\ \/ Cardinality(ExactAt(TaskTexts, RefOf("resolveTask"))) = 1
          \/ PartialAt(TaskTexts, RefOf("resolveTask")) # {} ) =>
       /\ FetchCalls("resolveTaskRef") = {}
       /\ ResolverDone("resolveTask")
  /\ ( /\ Answered("resolveProjectRef")
       /\ \/ Cardinality(ExactAt(ProjectTexts, RefOf("resolveProject"))) = 1
          \/ PartialAt(ProjectTexts, RefOf("resolveProject")) # {} ) =>
       /\ FetchCalls("resolveProjectRef") = {}
       /\ ResolverDone("resolveProject")

\* a search that found nothing was followed by the by-id fetch, which answered
C22_Witness ==
  /\ SourceCalls("resolveTaskRef") = {1}
  /\ FetchCalls("resolveTaskRef") = {2}
  /\ calls[1].status = "ok"
  /\ calls[2].status = "ok"
  /\ ResolverDone("resolveTask")

\* ref has the shape of an id: no whitespace, and all digits or letters and
\* digits with at least one of each
IsAlphanumeric(ref) == \A i \in 1..Len(ref) : ref[i] \in Letters \cup Digits
LooksLikeId(ref) ==
  /\ Len(ref) > 0
  /\ IsAlphanumeric(ref)
  /\ \E i \in 1..Len(ref) : ref[i] \in Digits
\* the fallback fetch of this resolver: a by-id fetch issued after its search
FallbackFetches(by) ==
  {f \in FetchCalls(by) : \E s \in SourceCalls(by) : s < f}

\* C23: a name match goes before an id interpretation: the fallback fetch is
\* issued only for ref itself and only after a search that failed or returned
\* no candidate containing ref; a ref shaped like an id that is contained in
\* exactly one candidate resolves to that candidate without any by-id fetch.
C23_NameBeforeId ==
  /\ \A f \in FallbackFetches("resolveTaskRef") :
       /\ calls[f].arg = RefOf("resolveTask")
       /\ Answered("resolveTaskRef") => PartialAt(TaskTexts, RefOf("resolveTask")) = {}
  /\ \A f \in FallbackFetches("resolveProjectRef") :
       /\ calls[f].arg = RefOf("resolveProject")
       /\ Answered("resolveProjectRef") =>
            PartialAt(ProjectTexts, RefOf("resolveProject")) = {}
  /\ ( /\ Answered("resolveTaskRef")
       /\ LooksLikeId(RefOf("resolveTask"))
       /\ Cardinality(PartialAt(TaskTexts, RefOf("resolveTask"))) = 1 ) =>
       /\ FetchCalls("resolveTaskRef") = {}
       /\ \E i \in PartialAt(TaskTexts, RefOf("resolveTask")) : task = results[i]
       /\ Outcome("resolveTask") = "entity"
  /\ ( /\ Answered("resolveProjectRef")
       /\ LooksLikeId(RefOf("resolveProject"))
       /\ Cardinality(PartialAt(ProjectTexts, RefOf("resolveProject"))) = 1 ) =>
       /\ FetchCalls("resolveProjectRef") = {}
       /\ \E i \in PartialAt(ProjectTexts, RefOf("resolveProject")) : project = results[i]
       /\ Outcome("resolveProject") = "entity"

\* "42" is the id of one task and part of the content of another: the search
\* returned both and the resolver took the one that contains it
C23_Witness ==
  /\ Answered("resolveTaskRef")
  /\ RefOf("resolveTask") = R_42
  /\ \E i \in 1..Len(results) : results[i].id = R_42
  /\ Cardinality(PartialAt(TaskTexts, R_42)) = 1
  /\ task.id # R_42
  /\ FetchCalls("resolveTaskRef") = {}

TaskSearchRejected ==
  \E s \in SourceCalls("resolveTaskRef") : calls[s].status = "failed"

\* C24: a rejected search of resolveTaskRef is not propagated: the resolver
\* goes on to the raw-id fallback (a by-id fetch of ref when ref has the shape
\* of an id) and ends with the fetched task or with NotFound, never with the
\* search's error; it ends with NotFound when ref has not the shape of an id
\* or the fallback fetch is rejected.
C24_SearchFailureFallsBack ==
  TaskSearchRejected =>
    /\ ~FailedWith("RemoteFailure") \/ Outcome("resolveTask") = "entity"
    /\ LooksLikeId(RefOf("resolveTask")) =>
         \E f \in FallbackFetches("resolveTaskRef") :
            calls[f].op = "getTask" /\ calls[f].arg = RefOf("resolveTask")
    /\ ResolverDone("resolveTask") =>
         /\ Outcome("resolveTask") \in {"entity", "NotFound"}
         /\ Outcome("resolveTask") = FetchedOrNotFound("resolveTaskRef")
         /\ ~LooksLikeId(RefOf("resolveTask")) =>
              /\ Outcome("resolveTask") = "NotFound"
              /\ FailedWith("NotFound")
         /\ (\E f \in FetchCalls("resolveTaskRef") : calls[f].status = "failed") =>
              FailedWith("NotFound")
    /\ ~ResolverDone("resolveTask") => pc = "awaitTaskFallback"

\* the search and then the fallback fetch were both rejected
C24_Witness ==
  /\ TaskSearchRejected
  /\ \E f \in FallbackFetches("resolveTaskRef") : calls[f].status = "failed"
  /\ FailedWith("NotFound")

\* the search stage of this resolver is over without a candidate: its search
\* was rejected and swallowed, or answered with no candidate containing ref
SearchGaveNothing(by, partialAt) ==
  /\ \E s \in SourceCalls(by) : calls[s].status \in {"ok", "failed"}
  /\ Answered(by) => partialAt = {}
  /\ ~Answered(by) => \/ FallbackFetches(by) # {}
                      \/ FailedWith("NotFound")

\* C25: after a search without a candidate the by-id fetch of ref is issued
\* exactly when ref has no whitespace and is all digits or letters and digits
\* with at least one of each; for any other ref (one with a tab or with
\* punctuation, say) no by-id fetch follows the search.
C25_FallbackOnlyForIdShapedRefs ==
  /\ SearchGaveNothing("resolveTaskRef", PartialAt(TaskTexts, RefOf("resolveTask"))) =>
       (FallbackFetches("resolveTaskRef") # {} <=> LooksLikeId(RefOf("resolveTask")))
  /\ SearchGaveNothing("resolveProjectRef",
                       PartialAt(ProjectTexts, RefOf("resolveProject"))) =>
       (FallbackFetches("resolveProjectRef") # {}
          <=> LooksLikeId(RefOf("resolveProject")))

\* the failure document is a NotFound for this entity and ref whose message
\* names the accepted forms of a ref
NotFoundNaming(entity, ref) ==
  /\ FailedWith("NotFound")
  /\ stderr[1].error.entity = entity
  /\ stderr[1].error.ref = ref
  /\ stderr[1].error.forms = {"name", "URL", "id:xxx"}
\* the rule of C26 for one resolver
NotFoundRule(kind, by, entity, partialAt) ==
  LET ref == RefOf(kind)
      rejected == \E s \in SourceCalls(by) : calls[s].status = "failed"
      nothing == Answered(by) /\ partialAt = {}
  IN  /\ ((rejected \/ nothing) /\ ~LooksLikeId(ref) /\ ResolverDone(kind)) =>
            NotFoundNaming(entity, ref)
      /\ (rejected /\ ~ResolverDone(kind)) => FallbackFetches(by) # {}
      /\ \A f \in FallbackFetches(by) :
            calls[f].status = "failed" =>
               /\ NotFoundNaming(entity, ref)
               /\ ~FailedWith("RemoteFailure")

\* C26: when the search or listing gave no candidate containing ref, or was
\* rejected, and ref has not the shape of an id or the fallback fetch is
\* rejected, the resolver fails with NotFound naming the accepted forms
\* (name, URL, id:xxx); the rejection of the fallback fetch is never the
\* failure that is reported.
C26_NotFoundAfterFallback ==
  /\ NotFoundRule("resolveTask", "resolveTaskRef", "task",
                  PartialAt(TaskTexts, RefOf("resolveTask")))
  /\ NotFoundRule("resolveProject", "resolveProjectRef", "project",
                  PartialAt(ProjectTexts, RefOf("resolveProject")))

\* the same rule for resolveTaskRef alone
C26_TaskNotFoundAfterFallback ==
  NotFoundRule("resolveTask", "resolveTaskRef", "task",
               PartialAt(TaskTexts, RefOf("resolveTask")))

\* review's three reads, in the order it issues them
ReviewReads == <<"getTasksByFilter", "getTasks", "getProjects">>
ReviewReady == At("ok") /\ cmd = "review"
SettledCalls == {i \in 1..Len(calls) : calls[i].status # "pending"}

C27_WitnessDone ==
  /\ cmd = "review"
  /\ exitCode = 0
  /\ Len(stdout) = 1
  /\ stdout[1].result.total = 6

\* the positions of the listing's tasks that satisfy P, and the tasks there
TasksWhere(P(_)) == {i \in 1..Len(results) : P(results[i])}
IdsAt(S) == [k \in 1..Cardinality(S) |-> results[Nth(S, k)].id]
IdsOf(ts) == [k \in 1..Len(ts) |-> ts[k].id]
InboxAt == {i \in 1..Len(projects) : projects[i].isInboxProject}
OthersAt == {i \in 1..Len(projects) : ~projects[i].isInboxProject}
InProject(pid) == TasksWhere(LAMBDA t : t.projectId = pid)
WithoutDue == TasksWhere(LAMBDA t : t.due = null)

\* C28: in review's result, inbox holds exactly the listed tasks of the
\* project flagged as inbox (none when no project is flagged), floating.count
\* is the number of listed tasks with no due, projects holds every project not
\* flagged as inbox with the number of listed tasks in it, total is the length
\* of the listing, and no task of overdue is a task without due.
C28_ReviewBuckets ==
  ReviewReady =>
    LET R == Result IN
    /\ InboxAt = {} => (R.inbox.count = 0 /\ R.inbox.tasks = <<>>)
    /\ \A i \in InboxAt :
         (\A j \in InboxAt : i <= j) =>
            /\ IdsOf(R.inbox.tasks) = IdsAt(InProject(projects[i].id))
            /\ R.inbox.count = Cardinality(InProject(projects[i].id))
    /\ R.floating.count = Cardinality(WithoutDue)
    /\ Len(R.projects) = Cardinality(OthersAt)
    /\ \A k \in 1..Len(R.projects) :
         LET p == projects[Nth(OthersAt, k)]
         IN  /\ R.projects[k].id = p.id
             /\ R.projects[k].name = p.name
             /\ R.projects[k].taskCount = Cardinality(InProject(p.id))
    /\ R.total = Len(results)
    /\ R.overdue.count = Len(R.overdue.tasks)
    /\ \A k \in 1..Len(R.overdue.tasks) :
         R.overdue.tasks[k].id \notin {results[i].id : i \in WithoutDue}

\* a listing with inbox tasks, tasks without due, an overdue task and a listed
\* project other than the inbox
C28_Witness ==
  /\ ReviewReady
  /\ InboxAt # {}
  /\ OthersAt # {}
  /\ Result.inbox.count = 2
  /\ Result.floating.count = 3
  /\ Result.overdue.count >= 1
  /\ \E k \in 1..Len(Result.projects) : Result.projects[k].taskCount = 2

\* no project is flagged as inbox and the listing is not empty
C28_WitnessNoInbox ==
  /\ ReviewReady
  /\ InboxAt = {}
  /\ Len(results) = 6
  /\ Result.inbox.count = 0

\* the path segment of an entity URL that follows the kind: it ends at the
\* next "/", at the query string, at the fragment or at the end of the ref
UrlSegment(ref) ==
  LET k == CHOOSE uk \in UrlKinds : uk.name \in EntityUrlKinds(ref)
      sc == CHOOSE x \in Schemes : SubSeq(ref, 1, Len(x) + 1) = x \o <<":">>
      from == Len(sc) + Len(HostPath) + Len(k.text) + 2
      stops == {i \in from..Len(ref) : ref[i] \in {"/", "?", "#"}}
      to == IF stops = {} THEN Len(ref)
            ELSE (CHOOSE i \in stops : \A j \in stops : i <= j) - 1
  IN  SubSeq(ref, from, to)
\* the text of a segment after its last hyphen, all of it when it has none
AfterLastHyphen(seg) ==
  LET H == {i \in 1..Len(seg) : seg[i] = "-"}
  IN  IF H = {} THEN seg
      ELSE SubSeq(seg, (CHOOSE i \in H : \A j \in H : i >= j) + 1, Len(seg))
\* the resolver of this kind of step was handed ref and has taken its first
\* decision: what C29 says of it
UrlRule(kind, by, entity, fetch, search) ==
  Entered(kind) =>
    LET ref == RefOf(kind)
    IN  IF IsEntityUrl(ref)
        THEN IF entity \in EntityUrlKinds(ref)
             THEN /\ Len(calls) = 1
                  /\ calls[1].by = by
                  /\ calls[1].op = fetch
                  /\ calls[1].arg = AfterLastHyphen(UrlSegment(ref))
             ELSE calls = <<>> /\ FailedWith("WrongUrlKind")
        ELSE /\ ~FailedWith("WrongUrlKind")
             /\ Len(calls) = 1
             /\ calls[1].by = by
             /\ calls[1].op = search
             /\ calls[1].arg \in {ref, <<>>}

\* C29: of a ref that matches the URL pattern with kind task, project, label
\* or filter, the id the resolver fetches is the text of the path segment
\* after its last hyphen, or the whole segment when it has no hyphen, without
\* query string and fragment; a ref that does not match (a URL of another
\* kind, another scheme) is not taken for a URL and goes on to the search.
C29_UrlIdIsAfterLastHyphen ==
  /\ UrlRule("resolveTask", "resolveTaskRef", "task", "getTask", "getTasksByFilter")
  /\ UrlRule("resolveProject", "resolveProjectRef", "project", "getProject",
             "getProjects")

\* C30: when two or more candidates equal ref ignoring case the resolver
\* picks none of them: it fails with AmbiguousReference, without a by-id
\* fetch, and lists the first min(n, 5) of all the candidates that contain
\* ref, those that equal it and the others alike, in the order of the
\* response.
C30_SeveralExactMatchesAreAmbiguous ==
  /\ ( /\ Answered("resolveTaskRef")
       /\ Cardinality(ExactAt(TaskTexts, RefOf("resolveTask"))) >= 2 ) =>
       /\ FailedWith("AmbiguousReference")
       /\ task = null
       /\ FetchCalls("resolveTaskRef") = {}
       /\ stderr[1].error.entity = "task"
       /\ stderr[1].error.matches = FirstFive(TaskTexts, RefOf("resolveTask"))
  /\ ( /\ Answered("resolveProjectRef")
       /\ Cardinality(ExactAt(ProjectTexts, RefOf("resolveProject"))) >= 2 ) =>
       /\ FailedWith("AmbiguousReference")
       /\ project = null
       /\ FetchCalls("resolveProjectRef") = {}
       /\ stderr[1].error.entity = "project"
       /\ stderr[1].error.matches = FirstFive(ProjectTexts, RefOf("resolveProject"))

\* "Ab" equals "AB" and "ab"; the response holds both and a candidate that
\* only contains it, listed between them
C30_Witness ==
  /\ Answered("resolveProjectRef")
  /\ RefOf("resolveProject") = R_Ab
  /\ Cardinality(ExactAt(ProjectTexts, R_Ab)) = 2
  /\ Cardinality(PartialAt(ProjectTexts, R_Ab)) = 6
  /\ FailedWith("AmbiguousReference")
  /\ Len(stderr[1].error.matches) = 5
  /\ stderr[1].error.matches[2].id = <<"4","2">>

====
